---- MODULE Spec2Model ----
(***************************************************************************)
(* LivelyBot high-torque motor control over CAN (rust/src/lib.rs and the   *)
(* programs under rust/src/bin).  One behaviour is one call of a public    *)
(* operation of LivelyMotorController, one run of a scan loop, or one run  *)
(* of a control program from its main, on a bus whose socket delivers      *)
(* frames, read timeouts and I/O faults.                                   *)
(***************************************************************************)
EXTENDS Integers, Sequences, FiniteSets, TLC

\* ---------------------------------------------------------------- bounds
\* Longest ID range a scan is started on.
MaxScanLen == 2
\* Capacity of the socket's receive queue.
MaxQueue == 1
\* Frames the bus delivers during one behaviour.
MaxArrivals == 2
\* Calls of command operations the caller makes one after the other.
MaxCalls == 2
\* Lines the interactive loop reads from the terminal.
MaxLines == 2
\* The clock value (ms) from which no further read is started.
MaxClock == 100

\* ------------------------------------------------------ program constants
PING_FLAG == 32768
SETTLE_MS == 10
WINDOW_MS == 50
READ_TIMEOUT_MS == 10
SCAN_DELAY_MS == 10
MODE_DELAY_MS == 50
REG_DELAY_MS == 20
PAD == 80
CAN_EFF_MASK == 536870911
CAN_MAX_DLEN == 8
FACTOR_POS == 10000
FACTOR_VEL == 4000
FACTOR_ACC == 1000
FACTOR_TQE == 200
MAGIC_POS == -32768
DEFAULT_ACC == 15
BRAKE_ACC == 30
LOOP_DELAY_MS == 10
SEND_COUNT == 5
SEND_DELAY_MS == 10
MAX_VEL_RPS == 2
MAX_TQE_NM == 3
SINE_DELAY_MS == 10
STEP_POLL_MS == 100
TEST_SETTLE_MS == 2000

\* ------------------------------------------------------------ input sets
\* Motor IDs a single call is made with (u8).
MotorIds == {0, 5, 7, 255}
\* First IDs of the scanned ranges; the last one ends at u8::MAX.
ScanStarts == {5, 254}
\* How long after a blocking read starts a frame may arrive (ms, below the
\* read timeout).
ArrivalDelays == {5}
\* By how much a thread::sleep may overshoot the requested duration (ms).
SleepJitter == {0, 5}

\* ----------------------------------------------------------------- bytes
RECURSIVE BitOr(_, _)
BitOr(a, b) ==
    IF a = 0 THEN b
    ELSE IF b = 0 THEN a
    ELSE (IF a % 2 = 1 \/ b % 2 = 1 THEN 1 ELSE 0) + 2 * BitOr(a \div 2, b \div 2)

RECURSIVE Pow2(_)
Pow2(n) == IF n = 0 THEN 1 ELSE 2 * Pow2(n - 1)

IsCont(b) == b >= 128 /\ b <= 191

\* std::str::from_utf8(..).is_ok() on a byte string.
RECURSIVE IsUtf8(_)
IsUtf8(s) ==
    IF s = <<>> THEN TRUE
    ELSE LET b == s[1]
             n == Len(s)
         IN  IF b < 128 THEN IsUtf8(Tail(s))
             ELSE IF b >= 194 /\ b <= 223
                  THEN n >= 2 /\ IsCont(s[2]) /\ IsUtf8(SubSeq(s, 3, n))
             ELSE IF b >= 224 /\ b <= 239
                  THEN /\ n >= 3
                       /\ IsCont(s[2])
                       /\ IsCont(s[3])
                       /\ (b = 224 => s[2] >= 160)
                       /\ (b = 237 => s[2] <= 159)
                       /\ IsUtf8(SubSeq(s, 4, n))
             ELSE IF b >= 240 /\ b <= 244
                  THEN /\ n >= 4
                       /\ IsCont(s[2])
                       /\ IsCont(s[3])
                       /\ IsCont(s[4])
                       /\ (b = 240 => s[2] >= 144)
                       /\ (b = 244 => s[2] <= 143)
                       /\ IsUtf8(SubSeq(s, 5, n))
             ELSE FALSE

\* str::trim_end_matches('\0').
RECURSIVE TrimEndNul(_)
TrimEndNul(s) ==
    IF s # <<>> /\ s[Len(s)] = 0 THEN TrimEndNul(SubSeq(s, 1, Len(s) - 1)) ELSE s

\* f32::to_le_bytes of the positive value num/den (round to nearest, ties to
\* even; normal numbers only).
RECURSIVE F32Exp(_, _, _)
F32Exp(num, den, e) ==
    IF num >= 2 * den THEN F32Exp(num, 2 * den, e + 1)
    ELSE IF num < den THEN F32Exp(2 * num, den, e - 1)
    ELSE e

RECURSIVE F32Scale(_, _, _)
F32Scale(num, den, e) ==
    \* <<n, d>> with n/d = (num/den) / 2^e
    IF e > 0 THEN F32Scale(num, 2 * den, e - 1)
    ELSE IF e < 0 THEN F32Scale(2 * num, den, e + 1)
    ELSE <<num, den>>

F32Bits(num, den) ==
    LET e    == F32Exp(num, den, 0)
        nd   == F32Scale(num, den, e)
        q    == (nd[1] * Pow2(23)) \div nd[2]
        r    == (nd[1] * Pow2(23)) % nd[2]
        up   == 2 * r > nd[2] \/ (2 * r = nd[2] /\ q % 2 = 1)
        m    == IF up THEN q + 1 ELSE q
        e2   == IF m = Pow2(24) THEN e + 1 ELSE e
        frac == IF m = Pow2(24) THEN 0 ELSE m - Pow2(23)
    IN  (e2 + 127) * Pow2(23) + frac

F32Encode(num, den) ==
    LET bits == F32Bits(num, den)
    IN  << bits % 256, (bits \div 256) % 256, (bits \div 65536) % 256,
           (bits \div 16777216) % 256 >>

\* The f32 literals of the program, as <<num, den>>: 1.0, 0.1, 3.0, 2.0, 0.2.
F32Literals == { <<1, 1>>, <<1, 10>>, <<3, 1>>, <<2, 1>>, <<2, 10>> }

\* Their encodings, computed once.
F32Table == [q \in F32Literals |-> F32Encode(q[1], q[2])]

F32LeBytes(num, den) == F32Table[<<num, den>>]

\* ------------------------------------------------------------------- f64
RECURSIVE Gcd(_, _)
Gcd(a, b) == IF b = 0 THEN a ELSE Gcd(b, a % b)

Abs(n) == IF n < 0 THEN -n ELSE n

\* An f64: the finite value n/d in lowest terms, NaN, or an infinity of sign
\* n.  The finite values used are dyadic with few bits, so every f64
\* operation below is exact on them, as it is in the program.
F64(n, d) ==
    LET g == Gcd(Abs(n), d)
    IN  [k |-> "num", n |-> n \div g, d |-> d \div g]

F64NaN == [k |-> "nan", n |-> 0, d |-> 1]

F64Inf(sign) == [k |-> "inf", n |-> sign, d |-> 1]

\* x * c and x / c for a finite constant c > 0.
F64Mul(x, c) == IF x.k = "num" THEN F64(x.n * c, x.d) ELSE x

F64Div(x, c) == IF x.k = "num" THEN F64(x.n, x.d * c) ELSE x

\* x < c, x > c for an integer c (false for NaN).
F64Less(x, c) ==
    CASE x.k = "num" -> x.n < c * x.d
      [] x.k = "inf" -> x.n < 0
      [] OTHER -> FALSE

F64Greater(x, c) ==
    CASE x.k = "num" -> x.n > c * x.d
      [] x.k = "inf" -> x.n > 0
      [] OTHER -> FALSE

\* f64::max(x, c) and f64::min(x, c): the other operand where one is NaN.
F64Max(x, c) == IF x.k = "nan" \/ F64Less(x, c) THEN F64(c, 1) ELSE x

F64Min(x, c) == IF x.k = "nan" \/ F64Greater(x, c) THEN F64(c, 1) ELSE x

\* f64::abs.
F64Abs(x) == IF x.k = "nan" THEN x ELSE [x EXCEPT !.n = Abs(x.n)]

\* `x as i16`: NaN gives 0, everything else is truncated toward zero and
\* saturates at the ends of i16.
AsI16(x) ==
    CASE x.k = "nan" -> 0
      [] x.k = "inf" -> IF x.n > 0 THEN 32767 ELSE -32768
      [] OTHER ->
           LET t == IF x.n >= 0 THEN x.n \div x.d ELSE -((-x.n) \div x.d)
           IN  IF t > 32767 THEN 32767 ELSE IF t < -32768 THEN -32768 ELSE t

\* ---------------------------------------------------------------- frames
Frame(ext, id, data) == [ext |-> ext, id |-> id, data |-> data]

NoFrame == Frame(FALSE, 0, <<>>)

\* Frames other nodes put on the bus.
RxFrames ==
    { Frame(TRUE, 1797, <<81, 65, 66, 67, 0, 0, 0, 0>>),
      Frame(FALSE, 5, <<81, 65, 0, 0, 118, 49, 46, 48>>),
      Frame(TRUE, 1536, <<0, 65, 255>>),
      Frame(TRUE, 255, <<81, 255, 66, 67, 0, 0, 0, 0>>),
      Frame(FALSE, 1534, <<>>),
      Frame(FALSE, 7, <<80, 65, 66, 67, 118, 50, 0, 0>>),
      Frame(TRUE, 1792, <<81, 195, 169, 0, 118, 255, 0, 0>>) }

Unknown == <<85, 110, 107, 110, 111, 119, 110>>

MotorInfoDefault ==
    [motor_id |-> 0, is_online |-> FALSE, name |-> Unknown,
     hardware_version |-> Unknown, response_time_ms |-> 0]

\* ----------------------------------------------------------------- state
VARIABLES
    pc,             \* position of the running call
    call,           \* the public operation (or scan loop) this behaviour runs
    motor_id,       \* the motor_id argument / loop variable
    iter,           \* the RangeInclusive<u8> a scan iterates
    now,            \* the monotonic clock, ms
    start_time,     \* ping_motor: start_time
    timeout_start,  \* ping_motor: timeout_start
    rxq,            \* frames queued in the socket, oldest first
    arrivals,       \* frames the bus has delivered so far
    info,           \* ping_motor: info
    ping_res,       \* what ping_motor returns: "Ok" (with info) or "Err"
    motors,         \* scan: the Vec<MotorInfo> built so far
    windows,        \* scan: per entry of motors, the frame its ping accepted
    result,         \* what the call returned: "none" while running
    log,            \* frames written to the socket and sleeps, in order
    lastRecv,       \* the latest read_frame_with_timeout of the running ping
    matched,        \* the frame the running ping accepted, if any
    recvAfterMatch, \* reads the running ping issued after accepting a frame
    pinged,         \* IDs ping_motor was called with, in order
    faults,         \* IDs whose ping met a failed send or a failed receive
    ip,             \* the running command's next send (index into Program)
    scan_args,      \* <<start_id, end_id>> the running scan was called with
    cmd_args,       \* the three i16 arguments of the running send_*_command
    history,        \* the caller's earlier calls: what each wrote and returned
    running,        \* the control program's `running` flag
    target_velocity,     \* velocity_acceleration_control: TARGET_VELOCITY
    target_acceleration, \* velocity_acceleration_control: TARGET_ACCELERATION
    input,          \* the line the interactive loop read last
    nlines,         \* lines the interactive loop has read
    program,        \* the control program that is running, "none" for a bare call
    prog_mode,      \* angle_stream_control: the Mode it was started with
    angles_arg,     \* angle_stream_control: the --angles / --positions text
    angles,         \* run_step_control, test_positions: the angles still to go
    duration,       \* run_sine_wave: duration, run_step_control: step time (ms)
    started,        \* control operations the program's loop has started
    stopped_after,  \* `started` when the Ctrl+C handler ran, -1 before
    conv_arg,       \* the f64 argument of the running conversion
    conv_ret        \* the i16 the conversion returned

vars ==
    << pc, call, motor_id, iter, now, start_time, timeout_start, rxq, arrivals,
       info, ping_res, motors, result, log, lastRecv, matched, recvAfterMatch,
       pinged, faults, ip, scan_args, cmd_args, history, running,
       target_velocity, target_acceleration, input, nlines, program,
       prog_mode, angles_arg, angles, duration, started, stopped_after, conv_arg, conv_ret,
       windows >>

\* What a control program was started with, and the count of the control
\* operations its loop has started, now and when the stop flag was set.
prog_vars == << program, prog_mode, angles_arg, angles, duration >>

stop_vars == << started, stopped_after >>

\* The state of the control programs and of their loops.
loop_vars ==
    << running, target_velocity, target_acceleration, input, nlines, prog_vars,
       stop_vars >>

\* The argument and the result of a call of a conversion function.
conv_vars == << conv_arg, conv_ret >>

\* The state of the bus, of ping_motor and of the scans.
ping_vars ==
    << iter, rxq, arrivals, info, ping_res, motors, lastRecv, matched,
       recvAfterMatch, pinged, faults, scan_args, windows >>

NoIter == [start |-> 0, end |-> 0, exhausted |-> TRUE]

NoRecv ==
    [tag |-> "NoRecv", raw |-> "none", frame |-> NoFrame, since_sent |-> 0,
     since_poll |-> 0, source_id |-> 0, direct_id |-> 0, detected_id |-> -1,
     accepted |-> FALSE]

SendEv(by, frame, t) == [ev |-> "send", by |-> by, frame |-> frame, ms |-> t]

SleepEv(by, ms) == [ev |-> "sleep", by |-> by, frame |-> NoFrame, ms |-> ms]

Init ==
    /\ pc = "idle"
    /\ call = "none"
    /\ motor_id = 0
    /\ iter = NoIter
    /\ now = 0
    /\ start_time = 0
    /\ timeout_start = 0
    /\ rxq = <<>>
    /\ arrivals = 0
    /\ info = MotorInfoDefault
    /\ ping_res = "none"
    /\ motors = <<>>
    /\ windows = <<>>
    /\ result = "none"
    /\ log = <<>>
    /\ lastRecv = NoRecv
    /\ matched = NoFrame
    /\ recvAfterMatch = 0
    /\ pinged = <<>>
    /\ faults = {}
    /\ ip = 0
    /\ scan_args = <<0, 0>>
    /\ cmd_args = <<0, 0, 0>>
    /\ history = <<>>
    /\ running = TRUE
    /\ target_velocity = F64(0, 1)
    /\ target_acceleration = F64(DEFAULT_ACC, 1)
    /\ input = <<>>
    /\ nlines = 0
    /\ program = "none"
    /\ prog_mode = "none"
    /\ angles_arg = <<>>
    /\ angles = <<>>
    /\ duration = 0
    /\ started = 0
    /\ stopped_after = -1
    /\ conv_arg = F64(0, 1)
    /\ conv_ret = 0

\* ------------------------------------------------------------- transport
\* send_frame: every identifier is built with CanId::extended.  write_ok is
\* the outcome of socket.write_frame.
send_frame(id, data, write_ok) ==
    IF id > CAN_EFF_MASK THEN [ok |-> FALSE, frame |-> NoFrame]
    ELSE IF Len(data) > CAN_MAX_DLEN THEN [ok |-> FALSE, frame |-> NoFrame]
    ELSE IF ~write_ok THEN [ok |-> FALSE, frame |-> NoFrame]
    ELSE [ok |-> TRUE, frame |-> Frame(TRUE, id, data)]

\* What socket.read_frame() can give under a read timeout: a frame, the
\* expired timeout reported as ErrorKind::TimedOut or as
\* ErrorKind::WouldBlock (EAGAIN, which Unix gives for SO_RCVTIMEO), or
\* another I/O error.
SockFrame(f) == [kind |-> "Frame", frame |-> f]

SockErr(kind) == [kind |-> kind, frame |-> NoFrame]

ExpiryKinds == {"TimedOut", "WouldBlock"}

\* Every error of the read taken for "no frame": a fault is swallowed.
read_frame_with_timeout_Swallow(raw) ==
    IF raw.kind = "Frame" THEN [tag |-> "Some", frame |-> raw.frame]
    ELSE [tag |-> "None", frame |-> NoFrame]

\* read_frame_with_timeout on the socket's outcome.
read_frame_with_timeout(raw) ==
    IF raw.kind = "Frame" THEN [tag |-> "Some", frame |-> raw.frame]
    ELSE IF raw.kind = "TimedOut" THEN [tag |-> "None", frame |-> NoFrame]
    ELSE [tag |-> "Err", frame |-> NoFrame]

\* The bus delivers a frame into the socket's queue: at any time after the
\* ping frame was written, also once ping_motor has returned.
bus_deliver ==
    /\ pc \in {"ping_settle", "ping_poll", "ping_return"}
    /\ arrivals < MaxArrivals
    /\ Len(rxq) < MaxQueue
    /\ \E f \in RxFrames : rxq' = Append(rxq, f)
    /\ arrivals' = arrivals + 1
    /\ UNCHANGED << pc, call, motor_id, iter, now, start_time, timeout_start,
                    info, ping_res, motors, result, log, lastRecv, matched,
                    recvAfterMatch, pinged, faults,
                    ip, scan_args >>
    /\ UNCHANGED << cmd_args, history, loop_vars, conv_vars, windows >>

\* ------------------------------------------------------------ ping_motor
ping_data == <<17, 0, PAD, PAD, PAD, PAD, PAD, PAD>>

\* A slip in the Standard arm: an 11-bit identifier taken as a direct ID only.
ExtractIds_StandardDirectOnly(frame) ==
    IF frame.ext
    THEN << (frame.id \div 256) % 128, frame.id % 256 >>
    ELSE << 0, frame.id % 256 >>

\* (source_id, direct_id) of a received frame's identifier: the Standard and
\* the Extended arm of the match.
ExtractIds(frame) ==
    IF frame.ext
    THEN << (frame.id \div 256) % 128, frame.id % 256 >>
    ELSE << (frame.id \div 256) % 128, frame.id % 256 >>

\* The two tests in the other order: direct_id == motor_id is tried first.
DetectedId_DirectFirst(source_id, direct_id, id) ==
    IF direct_id = id THEN direct_id
    ELSE IF source_id > 0 /\ source_id < 128 THEN source_id
    ELSE -1

\* A scanner that correlates a reply with the whole scan instead of the ping
\* in progress: a frame of any motor pinged so far is taken for the current
\* one.
DetectedId_AnyPinged(source_id, direct_id, id) ==
    IF \E k \in 1..Len(pinged) :
          \/ source_id > 0 /\ source_id = pinged[k]
          \/ source_id = 0 /\ direct_id = pinged[k]
    THEN id
    ELSE -1

\* detected_id, or -1 where the code continues with the next read.
DetectedId(source_id, direct_id, id) ==
    IF source_id > 0 /\ source_id < 128 THEN source_id
    ELSE IF direct_id = id THEN direct_id
    ELSE -1

\* The version parsed inside the test of byte 0, like the name.
ParseReply_VersionNeedsMarker(inf, data, rt) ==
    LET name_bytes == SubSeq(data, 2, 4)
        version_bytes == SubSeq(data, 5, 8)
        named == Len(data) >= 4 /\ data[1] = 81 /\ IsUtf8(name_bytes)
        versioned == Len(data) >= 8 /\ data[1] = 81 /\ IsUtf8(version_bytes)
    IN  [inf EXCEPT
           !.response_time_ms = rt,
           !.is_online = TRUE,
           !.name = IF named THEN TrimEndNul(name_bytes) ELSE @,
           !.hardware_version = IF versioned THEN TrimEndNul(version_bytes) ELSE @]

\* The elapsed time taken from timeout_start, the start of the polling window,
\* instead of start_time: the settle delay is left out of it.
ParseReply_FromWindowStart(inf, data, rt) ==
    LET name_bytes == SubSeq(data, 2, 4)
        version_bytes == SubSeq(data, 5, 8)
        named == Len(data) >= 4 /\ data[1] = 81 /\ IsUtf8(name_bytes)
        versioned == Len(data) >= 8 /\ IsUtf8(version_bytes)
    IN  [inf EXCEPT
           !.response_time_ms = rt - (timeout_start - start_time),
           !.is_online = TRUE,
           !.name = IF named THEN TrimEndNul(name_bytes) ELSE @,
           !.hardware_version = IF versioned THEN TrimEndNul(version_bytes) ELSE @]

\* info after a frame was accepted rt ms after start_time.
ParseReply(inf, data, rt) ==
    LET name_bytes == SubSeq(data, 2, 4)
        version_bytes == SubSeq(data, 5, 8)
        named == Len(data) >= 4 /\ data[1] = 81 /\ IsUtf8(name_bytes)
        versioned == Len(data) >= 8 /\ IsUtf8(version_bytes)
    IN  [inf EXCEPT
           !.response_time_ms = rt,
           !.is_online = TRUE,
           !.name = IF named THEN TrimEndNul(name_bytes) ELSE @,
           !.hardware_version = IF versioned THEN TrimEndNul(version_bytes) ELSE @]

\* Enters ping_motor(id): lines 78-88, up to the send of the ping frame.
ping_motor_send ==
    /\ pc = "ping_motor"
    /\ \E write_ok \in BOOLEAN :
         LET r == send_frame(BitOr(PING_FLAG, motor_id), ping_data, write_ok)
         IN  /\ start_time' = now
             /\ info' = [MotorInfoDefault EXCEPT !.motor_id = motor_id]
             /\ pinged' = Append(pinged, motor_id)
             /\ lastRecv' = NoRecv
             /\ matched' = NoFrame
             /\ recvAfterMatch' = 0
             /\ IF r.ok
                THEN /\ log' = Append(log, SendEv("ping_motor", r.frame, now))
                     /\ pc' = "ping_settle"
                     /\ UNCHANGED << ping_res, faults >>
                ELSE /\ ping_res' = "Err"
                     /\ faults' = faults \cup {motor_id}
                     /\ pc' = "ping_return"
                     /\ UNCHANGED log
    /\ UNCHANGED << call, motor_id, iter, now, timeout_start, rxq, arrivals,
                    motors, result,
                    ip, scan_args >>
    /\ UNCHANGED << cmd_args, history, loop_vars, conv_vars, windows >>

\* thread::sleep(10 ms), then timeout_start = Instant::now().
ping_motor_settle ==
    /\ pc = "ping_settle"
    /\ \E j \in SleepJitter :
         /\ now' = now + SETTLE_MS + j
         /\ timeout_start' = now + SETTLE_MS + j
    /\ log' = Append(log, SleepEv("ping_motor", SETTLE_MS))
    /\ pc' = "ping_poll"
    /\ UNCHANGED << call, motor_id, iter, start_time, rxq, arrivals, info,
                    ping_res, motors, result, lastRecv, matched,
                    recvAfterMatch, pinged, faults,
                    ip, scan_args >>
    /\ UNCHANGED << cmd_args, history, loop_vars, conv_vars, windows >>

\* The loop left without a match reported as a failure.
AfterLoop_NotFoundIsErr == "Err"

\* What ping_motor returns after the loop: Ok(info), whether the loop was left
\* by `break` or because its condition became false.
AfterLoop == "Ok"

\* An off-by-one loop condition: <= 50.
WindowOpen_Inclusive == now - timeout_start <= WINDOW_MS

\* The loop condition looked at only after a read that brought no frame:
\* after a frame was rejected the next read is started at once.
WindowOpen_UnlessFrame ==
    now - timeout_start < WINDOW_MS \/ (lastRecv.tag = "Some" /\ ~lastRecv.accepted)

\* The loop condition: timeout_start.elapsed().as_millis() < 50.
WindowOpen == now - timeout_start < WINDOW_MS

\* The loop condition is false: ping_motor returns Ok(info).
ping_motor_window_elapsed ==
    /\ pc = "ping_poll"
    /\ ~WindowOpen
    /\ ping_res' = AfterLoop
    /\ pc' = "ping_return"
    /\ UNCHANGED << call, motor_id, iter, now, start_time, timeout_start, rxq,
                    arrivals, info, motors, result, log, lastRecv, matched,
                    recvAfterMatch, pinged, faults,
                    ip, scan_args >>
    /\ UNCHANGED << cmd_args, history, loop_vars, conv_vars, windows >>

\* The `break` left out: polling goes on after a frame was accepted.
AfterMatch_NoBreak == "ping_poll"

\* Where ping_motor goes on after it accepted a frame: `break` leaves the loop.
AfterMatch == "ping_return"

\* A retry: the ping frame is sent again after a read that brought no reply.
AfterMiss_Resend == "ping_motor"

\* Where ping_motor goes on after a read that timed out or gave a frame of
\* another motor: back to the loop condition.
AfterMiss == "ping_poll"

\* One iteration of the polling loop: the read gave `raw` after d ms.
PollStep(raw, d) ==
    LET res == read_frame_with_timeout(raw)
        ids == ExtractIds(res.frame)
        det == DetectedId(ids[1], ids[2], motor_id)
        acc == res.tag = "Some" /\ det = motor_id
        t   == now + d
    IN  /\ now < MaxClock
        /\ now' = t
        /\ lastRecv' =
             [tag |-> res.tag, raw |-> raw.kind, frame |-> res.frame,
              since_sent |-> now - start_time,
              since_poll |-> now - timeout_start,
              source_id |-> IF res.tag = "Some" THEN ids[1] ELSE 0,
              direct_id |-> IF res.tag = "Some" THEN ids[2] ELSE 0,
              detected_id |-> IF res.tag = "Some" THEN det ELSE -1,
              accepted |-> acc]
        /\ recvAfterMatch' =
             IF matched # NoFrame THEN recvAfterMatch + 1 ELSE recvAfterMatch
        /\ IF res.tag = "Err"
           THEN /\ ping_res' = "Err"
                /\ faults' = faults \cup {motor_id}
                /\ pc' = "ping_return"
                /\ UNCHANGED << info, matched >>
           ELSE IF acc
           THEN /\ info' = ParseReply(info, res.frame.data, t - start_time)
                /\ matched' = IF matched = NoFrame THEN res.frame ELSE matched
                /\ ping_res' = AfterLoop
                /\ pc' = AfterMatch
                /\ UNCHANGED faults
           ELSE /\ pc' = AfterMiss
                /\ UNCHANGED << info, matched, ping_res, faults >>

\* The loop condition holds and read_frame_with_timeout(10) is called: the
\* socket gives the oldest queued frame at once; with none queued a frame
\* arrives within the timeout or the timeout expires; or the socket fails
\* (set_read_timeout or read_frame, with an error that is no timeout).
ping_motor_recv ==
    /\ pc = "ping_poll"
    /\ WindowOpen
    /\ \/ /\ rxq # <<>>
          /\ PollStep(SockFrame(Head(rxq)), 0)
          /\ rxq' = Tail(rxq)
          /\ UNCHANGED arrivals
       \/ /\ rxq = <<>>
          /\ arrivals < MaxArrivals
          /\ \E f \in RxFrames, d \in ArrivalDelays :
               PollStep(SockFrame(f), d)
          /\ arrivals' = arrivals + 1
          /\ UNCHANGED rxq
       \/ /\ rxq = <<>>
          /\ \E k \in ExpiryKinds : PollStep(SockErr(k), READ_TIMEOUT_MS)
          /\ UNCHANGED << rxq, arrivals >>
       \/ /\ PollStep(SockErr("Other"), 0)
          /\ UNCHANGED << rxq, arrivals >>
    /\ UNCHANGED << call, motor_id, iter, start_time, timeout_start, motors,
                    result, log, pinged,
                    ip, scan_args >>
    /\ UNCHANGED << cmd_args, history, loop_vars, conv_vars, windows >>

\* A bus that never falls silent: with the queue empty, the read is ended by
\* a frame of some node, however many have arrived before.
ping_motor_recv_flood ==
    /\ pc = "ping_poll"
    /\ WindowOpen
    /\ rxq = <<>>
    /\ \E f \in RxFrames, d \in ArrivalDelays : PollStep(SockFrame(f), d)
    /\ arrivals' = arrivals + 1
    /\ UNCHANGED << call, motor_id, iter, start_time, timeout_start, rxq,
                    motors, result, log, pinged, ip, scan_args, cmd_args,
                    history, loop_vars, conv_vars, windows >>

\* A direct call of ping_motor(id).
call_ping_motor ==
    /\ pc = "idle"
    /\ \E id \in MotorIds : motor_id' = id
    /\ call' = "ping_motor"
    /\ pc' = "ping_motor"
    /\ UNCHANGED << iter, now, start_time, timeout_start, rxq, arrivals, info,
                    ping_res, motors, result, log, lastRecv, matched,
                    recvAfterMatch, pinged, faults,
                    ip, scan_args >>
    /\ UNCHANGED << cmd_args, history, loop_vars, conv_vars, windows >>

ping_motor_return ==
    /\ pc = "ping_return"
    /\ call = "ping_motor"
    /\ result' = ping_res
    /\ pc' = "done"
    /\ UNCHANGED << call, motor_id, iter, now, start_time, timeout_start, rxq,
                    arrivals, info, ping_res, motors, log, lastRecv, matched,
                    recvAfterMatch, pinged, faults,
                    ip, scan_args >>
    /\ UNCHANGED << cmd_args, history, loop_vars, conv_vars, windows >>

\* ------------------------------------------------------------ scan_range
\* ping_motor has returned into a loop body: its locals and the Result it
\* returned are consumed.  No Instant is live any more, so the clock's
\* (arbitrary) origin is moved to the end of the body's sleep.
PingLocalsDropped ==
    /\ start_time' = 0
    /\ timeout_start' = 0
    /\ info' = MotorInfoDefault
    /\ ping_res' = "none"
    /\ lastRecv' = NoRecv
    /\ matched' = NoFrame
    /\ recvAfterMatch' = 0

\* A hand-written u8 loop in its place: `while id <= end_id { ..; id += 1 }`
\* with wrapping arithmetic.
RangeNext_Wrapping(it) ==
    IF it.start > it.end THEN << -1, it >>
    ELSE << it.start, [it EXCEPT !.start = (it.start + 1) % 256] >>

\* RangeInclusive<u8>::next on `it`: <<the item or -1 for None, the iterator
\* afterwards>>.
RangeNext(it) ==
    IF it.exhausted \/ it.start > it.end THEN << -1, it >>
    ELSE IF it.start < it.end
         THEN << it.start, [it EXCEPT !.start = it.start + 1] >>
         ELSE << it.start, [it EXCEPT !.exhausted = TRUE] >>

ScanRanges ==
    { se \in (0..255) \X (0..255) :
        /\ se[1] \in ScanStarts
        /\ se[2] >= se[1] - 1
        /\ se[2] < se[1] + MaxScanLen }

\* A call of LivelyMotorController::scan_range(start_id, end_id).
call_scan_range ==
    /\ pc = "idle"
    /\ \E se \in ScanRanges :
         /\ iter' = [start |-> se[1], end |-> se[2], exhausted |-> FALSE]
         /\ scan_args' = se
    /\ call' = "scan_range"
    /\ motors' = <<>>
    /\ pc' = "scan_next"
    /\ UNCHANGED << motor_id, now, start_time, timeout_start, rxq, arrivals,
                    info, ping_res, result, log, lastRecv, matched,
                    recvAfterMatch, pinged, faults, ip >>
    /\ UNCHANGED << cmd_args, history, loop_vars, conv_vars, windows >>

\* The head of `for motor_id in start_id..=end_id`, in scan_range and in the
\* scanner's scan_motors alike: the next ID is pinged, or the loop ends and
\* Ok(motors) is returned.
scan_next ==
    /\ pc = "scan_next"
    /\ LET nx == RangeNext(iter)
       IN  /\ iter' = nx[2]
           /\ IF nx[1] = -1
              THEN /\ result' = "Ok"
                   /\ pc' = "done"
                   /\ UNCHANGED motor_id
              ELSE /\ motor_id' = nx[1]
                   /\ pc' = "ping_motor"
                   /\ UNCHANGED result
    /\ UNCHANGED << call, now, start_time, timeout_start, rxq, arrivals, info,
                    ping_res, motors, log, lastRecv, matched, recvAfterMatch,
                    pinged, faults,
                    ip, scan_args >>
    /\ UNCHANGED << cmd_args, history, loop_vars, conv_vars, windows >>

\* scan_range's loop body after ping_motor returned: `?` returns the error,
\* otherwise the info is pushed and the thread sleeps 10 ms.
scan_range_body ==
    /\ pc = "ping_return"
    /\ call = "scan_range"
    /\ IF ping_res = "Err"
       THEN /\ result' = "Err"
            /\ pc' = "done"
            /\ UNCHANGED << motors, windows, log, now >>
       ELSE /\ motors' = Append(motors, info)
            /\ windows' = Append(windows, matched)
            /\ log' = Append(log, SleepEv("scan_range", SCAN_DELAY_MS))
            /\ now' = 0
            /\ pc' = "scan_next"
            /\ UNCHANGED result
    /\ PingLocalsDropped
    /\ UNCHANGED << call, motor_id, iter, rxq, arrivals, pinged, faults,
                    ip, scan_args >>
    /\ UNCHANGED << cmd_args, history, loop_vars, conv_vars >>

\* ----------------------------------------- can_motor_scanner: scan_motors
call_scan_motors ==
    /\ pc = "idle"
    /\ \E se \in ScanRanges :
         /\ iter' = [start |-> se[1], end |-> se[2], exhausted |-> FALSE]
         /\ scan_args' = se
    /\ call' = "scan_motors"
    /\ motors' = <<>>
    /\ pc' = "scan_next"
    /\ UNCHANGED << motor_id, now, start_time, timeout_start, rxq, arrivals,
                    info, ping_res, result, log, lastRecv, matched,
                    recvAfterMatch, pinged, faults, ip >>
    /\ UNCHANGED << cmd_args, history, loop_vars, conv_vars, windows >>

\* scan_motors' loop body after ping_motor returned: Ok(info) is pushed, an
\* Err is reported and an offline MotorInfo pushed in its place; then the
\* thread sleeps 10 ms.  (Writing to the terminal is taken to succeed.)
scan_motors_body ==
    /\ pc = "ping_return"
    /\ call = "scan_motors"
    /\ motors' =
         IF ping_res = "Ok" THEN Append(motors, info)
         ELSE Append(motors, [MotorInfoDefault EXCEPT !.motor_id = motor_id])
    /\ windows' = Append(windows, matched)
    /\ log' = Append(log, SleepEv("scan_motors", SCAN_DELAY_MS))
    /\ now' = 0
    /\ pc' = "scan_next"
    /\ PingLocalsDropped
    /\ UNCHANGED << call, motor_id, iter, rxq, arrivals, result, pinged,
                    faults,
                    ip, scan_args >>
    /\ UNCHANGED << cmd_args, history, loop_vars, conv_vars >>

\* ------------------------------------------------- mode and gain commands
\* Only the bytes that carry something, without the padding.
mode_data_Short(mode) == <<1, 0, mode>>

\* [0x01, 0x00, mode, 0x50 x5]
mode_data(mode) == <<1, 0, mode, PAD, PAD, PAD, PAD, PAD>>

\* [0x0D, reg, 0, 0, 0, 0, 0x50, 0x50] with data[2..6] overwritten by the
\* little-endian bytes of the f32 num/den.
reg_data(reg, num, den) ==
    LET data == <<13, reg, 0, 0, 0, 0, PAD, PAD>>
        le == F32LeBytes(num, den)
    IN  [i \in 1..8 |-> IF i >= 3 /\ i <= 6 THEN le[i - 2] ELSE data[i]]

\* One send_frame(id, data)? of a command, followed by thread::sleep(sleep_ms)
\* where sleep_ms > 0.
Step(id, data, sleep_ms) == [id |-> id, data |-> data, sleep_ms |-> sleep_ms]

\* The gains written in the other order, and no settle delay after the mode
\* frame.
enable_motor_Reordered(id) ==
    << Step(id, mode_data(10), 0),
       Step(id, reg_data(36, 1, 10), REG_DELAY_MS),
       Step(id, reg_data(35, 1, 1), 0) >>

\* enable_motor(id): the mode frame, Kp = 1.0, Kd = 0.1.
enable_motor(id) ==
    << Step(id, mode_data(10), MODE_DELAY_MS),
       Step(id, reg_data(35, 1, 1), REG_DELAY_MS),
       Step(id, reg_data(36, 1, 10), 0) >>

\* A driver that keeps count of its calls and lets it into the frame: the
\* first call is right, the next ones differ.
disable_motor_Stateful(id) == << Step(id, mode_data(Len(history)), 0) >>

\* disable_motor(id): the mode frame with mode 0.
disable_motor(id) == << Step(id, mode_data(0), 0) >>

\* The gains out of order and the delays on the wrong frames: Kd before Kp,
\* no delay after the mode frame.
enable_velocity_mode_Reordered(id) ==
    << Step(id, mode_data(10), 0),
       Step(id, reg_data(34, 3, 1), MODE_DELAY_MS),
       Step(id, reg_data(36, 2, 10), REG_DELAY_MS),
       Step(id, reg_data(35, 2, 1), 0) >>

\* enable_velocity_mode(id): the mode frame, torque limit 3.0, Kp = 2.0,
\* Kd = 0.2.
enable_velocity_mode(id) ==
    << Step(id, mode_data(10), MODE_DELAY_MS),
       Step(id, reg_data(34, 3, 1), REG_DELAY_MS),
       Step(id, reg_data(35, 2, 1), 0),
       Step(id, reg_data(36, 2, 10), 0) >>

\* The two bytes the wrong way round.
I16LeBytes_BigEndian(x) ==
    LET u == (x + 65536) % 65536
    IN  << u \div 256, u % 256 >>

\* i16::to_le_bytes: two's complement, low byte first.
I16LeBytes(x) ==
    LET u == (x + 65536) % 65536
    IN  << u % 256, u \div 256 >>

\* [0u8; 8] with the three i16 copied into data[0..6] and data[6], data[7]
\* set to 0x50.
stream_data(x1, x2, x3) ==
    I16LeBytes(x1) \o I16LeBytes(x2) \o I16LeBytes(x3) \o << PAD, PAD >>

\* send_velocity_command(position, velocity, acceleration): one frame to
\* identifier 0x00AD.
send_velocity_command(position, velocity, acceleration) ==
    << Step(173, stream_data(position, velocity, acceleration), 0) >>

\* send_angle_command(angle, max_vel, max_tqe): one frame to identifier
\* 0x0090.
send_angle_command(angle, max_vel, max_tqe) ==
    << Step(144, stream_data(angle, max_vel, max_tqe), 0) >>

\* The commands that take a motor_id, those that take three i16, and all
\* commands.
IdCommands == {"enable_motor", "disable_motor", "enable_velocity_mode"}

StreamCommands == {"send_velocity_command", "send_angle_command"}

Commands == IdCommands \cup StreamCommands

\* The i16 triples a stream command is called with: the spec's example, the
\* sentinel position, both ends of i16, bytes that differ in the two halves.
I16Triples ==
    { <<100, 200, 300>>, <<-32768, 0, 30000>>, <<-1, 32767, -32768>>,
      <<255, 256, -256>> }

\* The sends of the running command.
Program ==
    CASE call = "enable_motor" -> enable_motor(motor_id)
      [] call = "disable_motor" -> disable_motor(motor_id)
      [] call = "enable_velocity_mode" -> enable_velocity_mode(motor_id)
      [] call = "send_velocity_command" ->
           send_velocity_command(cmd_args[1], cmd_args[2], cmd_args[3])
      [] call = "send_angle_command" ->
           send_angle_command(cmd_args[1], cmd_args[2], cmd_args[3])
      [] OTHER -> <<>>

\* What the running call, once it has returned, leaves with the caller: the
\* operation, its arguments, what it returned and the frames it wrote.
CallRecord ==
    [op |-> call, id |-> motor_id, args |-> cmd_args, result |-> result,
     frames |-> LET sends == SelectSeq(log, LAMBDA e : e.ev = "send")
                IN  [i \in 1..Len(sends) |-> sends[i].frame]]

\* The caller makes its first call on the controller, or its next one after
\* a command has returned; the controller is borrowed as &self and keeps no
\* state between the calls.
NextCall ==
    /\ \/ /\ pc = "idle"
          /\ UNCHANGED history
       \/ /\ pc = "done"
          /\ program = "none"
          /\ call \in Commands
          /\ Len(history) + 1 < MaxCalls
          /\ history' = Append(history, CallRecord)
    /\ result' = "none"
    /\ log' = <<>>
    /\ now' = 0
    /\ ip' = 1
    /\ pc' = "command"

\* A call of enable_motor, disable_motor or enable_velocity_mode.
call_command ==
    /\ NextCall
    /\ \E c \in IdCommands : call' = c
    /\ \E id \in MotorIds : motor_id' = id
    /\ cmd_args' = <<0, 0, 0>>
    /\ UNCHANGED << iter, start_time, timeout_start, rxq, arrivals, info,
                    ping_res, motors, lastRecv, matched,
                    recvAfterMatch, pinged, faults, scan_args,
                    loop_vars, conv_vars, windows >>

\* A call of send_velocity_command or send_angle_command.
call_stream_command ==
    /\ NextCall
    /\ \E c \in StreamCommands : call' = c
    /\ \E a \in I16Triples : cmd_args' = a
    /\ motor_id' = 0
    /\ UNCHANGED << iter, start_time, timeout_start, rxq, arrivals,
                    info, ping_res, motors, lastRecv, matched,
                    recvAfterMatch, pinged, faults, scan_args,
                    loop_vars, conv_vars, windows >>

\* The next send of the running command: `?` returns a failed send at once;
\* after the last send the command returns Ok(()).
command_step ==
    /\ pc = "command"
    /\ \E write_ok \in BOOLEAN, j \in SleepJitter :
         LET st == Program[ip]
             r  == send_frame(st.id, st.data, write_ok)
         IN  IF ~r.ok
             THEN /\ result' = "Err"
                  /\ pc' = "done"
                  /\ UNCHANGED << log, now, ip >>
             ELSE /\ log' =
                       IF st.sleep_ms > 0
                       THEN log \o << SendEv(call, r.frame, now),
                                      SleepEv(call, st.sleep_ms) >>
                       ELSE Append(log, SendEv(call, r.frame, now))
                  /\ now' = IF st.sleep_ms > 0 THEN now + st.sleep_ms + j ELSE now
                  /\ IF ip = Len(Program)
                     THEN /\ result' = "Ok"
                          /\ pc' = "done"
                          /\ UNCHANGED ip
                     ELSE /\ ip' = ip + 1
                          /\ UNCHANGED << result, pc >>
    /\ UNCHANGED << call, motor_id, iter, start_time, timeout_start, rxq,
                    arrivals, info, ping_res, motors, lastRecv, matched,
                    recvAfterMatch, pinged, faults, scan_args, cmd_args,
                    history, loop_vars, conv_vars, windows >>

\* ----------------------------------------------------------- conversions
\* A cast that wraps, as `as i16` does on an integer: no clamp in front of
\* it, the low 16 bits of the truncated value.
Saturate_Wrapping(x) ==
    IF x.k # "num" THEN 0
    ELSE LET t == IF x.n >= 0 THEN x.n \div x.d ELSE -((-x.n) \div x.d)
         IN  ((t + 32768) % 65536) - 32768

\* x.max(-32768.0).min(32767.0) as i16
Saturate(x) == AsI16(F64Min(F64Max(x, -32768), 32767))

\* The four conversions, as methods of LivelyMotorController and as free
\* functions (the same bodies).
degrees_to_position(angle_deg) ==
    Saturate(F64Mul(F64Div(angle_deg, 360), FACTOR_POS))

rps_to_velocity(velocity_rps) == Saturate(F64Mul(velocity_rps, FACTOR_VEL))

rps2_to_acceleration(acceleration_rps2) ==
    Saturate(F64Mul(acceleration_rps2, FACTOR_ACC))

nm_to_torque(torque_nm) == Saturate(F64Mul(torque_nm, FACTOR_TQE))

Conversions ==
    {"degrees_to_position", "rps_to_velocity", "rps2_to_acceleration",
     "nm_to_torque"}

Convert(fn, x) ==
    CASE fn = "degrees_to_position" -> degrees_to_position(x)
      [] fn = "rps_to_velocity" -> rps_to_velocity(x)
      [] fn = "rps2_to_acceleration" -> rps2_to_acceleration(x)
      [] OTHER -> nm_to_torque(x)

\* Finite arguments: small values, values whose scaled value lies between two
\* integers next to an end of i16 on either side of it, and values far
\* outside.  Angles are multiples of 45/256 degrees (a 2048th of a turn).
Dyadics ==
    { F64(0, 1), F64(1, 1), F64(-2, 1), F64(1, 256), F64(-1, 256),
      F64(2097, 256), F64(-2097, 256), F64(16777, 2048), F64(-16777, 2048),
      F64(-8389, 1024), F64(131, 4), F64(4195, 128), F64(-4195, 128),
      F64(655, 4), F64(164, 1), F64(-164, 1), F64(100000, 1),
      F64(-100000, 1) }

Angles ==
    { F64(0, 1), F64(45, 1), F64(-90, 1), F64(45, 256), F64(-45, 256),
      F64(150975, 128), F64(-150975, 128), F64(301995, 256),
      F64(-301995, 256), F64(3600, 1), F64(-3600, 1) }

NonFinite == { F64NaN, F64Inf(1), F64Inf(-1) }

ConvInputs(fn) ==
    (IF fn = "degrees_to_position" THEN Angles ELSE Dyadics) \cup NonFinite

\* A call of one of the conversion functions.
call_convert ==
    /\ pc = "idle"
    /\ \E fn \in Conversions :
         /\ call' = fn
         /\ \E x \in ConvInputs(fn) :
              /\ conv_arg' = x
              /\ conv_ret' = Convert(fn, x)
    /\ result' = "Ok"
    /\ pc' = "done"
    /\ UNCHANGED << motor_id, iter, now, start_time, timeout_start, rxq,
                    arrivals, info, ping_res, motors, log, lastRecv, matched,
                    recvAfterMatch, pinged, faults, ip, scan_args, cmd_args,
                    history, loop_vars, windows >>

\* --------------------- velocity_acceleration_control: run_interactive_mode
\* A line of text is the sequence of its characters.
Whitespace == {" ", "\n", "\t", "\r"}

\* str::trim.
RECURSIVE TrimStart(_)
TrimStart(s) ==
    IF s # <<>> /\ s[1] \in Whitespace THEN TrimStart(Tail(s)) ELSE s

RECURSIVE TrimEnd(_)
TrimEnd(s) ==
    IF s # <<>> /\ s[Len(s)] \in Whitespace
    THEN TrimEnd(SubSeq(s, 1, Len(s) - 1))
    ELSE s

Trim(s) == TrimEnd(TrimStart(s))

\* str::to_lowercase, on the letters the lines are written with.
ToLowercase(s) ==
    [i \in 1..Len(s) |->
        CASE s[i] = "A" -> "a"
          [] s[i] = "C" -> "c"
          [] s[i] = "Q" -> "q"
          [] OTHER -> s[i]]

StartsWith(s, prefix) ==
    Len(s) >= Len(prefix) /\ SubSeq(s, 1, Len(prefix)) = prefix

DigitChars == <<"0", "1", "2", "3", "4", "5", "6", "7", "8", "9">>

IsDigit(c) == \E v \in 1..10 : DigitChars[v] = c

DigitValue(c) == (CHOOSE v \in 1..10 : DigitChars[v] = c) - 1

RECURSIVE DecimalValue(_)
DecimalValue(s) ==
    IF s = <<>> THEN 0
    ELSE 10 * DecimalValue(SubSeq(s, 1, Len(s) - 1)) + DigitValue(s[Len(s)])

RECURSIVE Pow10(_)
Pow10(n) == IF n = 0 THEN 1 ELSE 10 * Pow10(n - 1)

\* str::parse::<f64> on a decimal literal: an optional sign, digits, an
\* optional point and digits, with a digit somewhere.  Anything else is an
\* error here (exponents, "inf" and "nan", which parse too, are not among the
\* lines tried).
ParseF64(s) ==
    LET signed == s # <<>> /\ s[1] \in {"-", "+"}
        body == IF signed THEN Tail(s) ELSE s
        points == {i \in 1..Len(body) : body[i] = "."}
        point == IF points = {} THEN Len(body) + 1
                 ELSE CHOOSE i \in points : TRUE
        whole == SubSeq(body, 1, point - 1)
        fract == SubSeq(body, point + 1, Len(body))
        ok == /\ Cardinality(points) <= 1
              /\ Len(whole) + Len(fract) >= 1
              /\ \A i \in 1..Len(whole) : IsDigit(whole[i])
              /\ \A i \in 1..Len(fract) : IsDigit(fract[i])
        mag == DecimalValue(whole \o fract)
    IN  IF ok
        THEN [ok |-> TRUE,
              val |-> F64(IF signed /\ s[1] = "-" THEN -mag ELSE mag,
                          Pow10(Len(fract)))]
        ELSE [ok |-> FALSE, val |-> F64NaN]

\* What read_line gives: lines typed at the terminal, and the empty string
\* at the end of the input.
Lines ==
    { <<"q", "\n">>,
      <<"0", "\n">>,
      <<"0", ".", "0", "\n">>,
      <<"5", ".", "0", "\n">>,
      <<"-", "2", ".", "5", "\n">>,
      <<"1", "0", "0", "\n">>,
      <<"a", "c", "c", " ", "1", "0", ".", "0", "\n">>,
      <<"A", "C", "C", "-", "4", "0", "\n">>,
      <<"a", "c", "c", "\n">>,
      <<"s", "t", "o", "p", "\n">>,
      <<>> }

\* The program enters run_interactive_mode(controller, motor_id, running,
\* default_acc): set_target_acceleration(default_acc).
call_run_interactive_mode ==
    /\ pc = "idle"
    /\ call' = "run_interactive_mode"
    /\ \E id \in MotorIds : motor_id' = id
    /\ target_acceleration' = F64(DEFAULT_ACC, 1)
    /\ pc' = "vel_loop"
    /\ UNCHANGED << iter, now, start_time, timeout_start, rxq, arrivals, info,
                    ping_res, motors, result, log, lastRecv, matched,
                    recvAfterMatch, pinged, faults, ip, scan_args, cmd_args,
                    history, running, target_velocity, input, nlines,
                    prog_vars, stop_vars, conv_vars, windows >>

\* The Ctrl+C handler, from ctrlc::set_handler on: r.store(false).
ctrlc_handler ==
    /\ \/ pc \in {"vel_loop", "vel_read"}
       \/ program # "none" /\ pc # "exit"
    /\ running
    /\ running' = FALSE
    /\ stopped_after' = started
    /\ UNCHANGED << pc, call, motor_id, iter, now, start_time, timeout_start,
                    rxq, arrivals, info, ping_res, motors, result, log,
                    lastRecv, matched, recvAfterMatch, pinged, faults, ip,
                    scan_args, cmd_args, history, target_velocity,
                    target_acceleration, input, nlines, prog_vars, started,
                    conv_vars, windows >>

\* `while running.load(..)`: the prompt is written and read_line is entered,
\* or the loop ends and Ok(()) is returned.
velocity_loop_head ==
    /\ pc = "vel_loop"
    /\ IF running
       THEN /\ pc' = "vel_read"
            /\ UNCHANGED result
       ELSE /\ pc' = "done"
            /\ result' = "Ok"
    /\ UNCHANGED << call, motor_id, iter, now, start_time, timeout_start,
                    rxq, arrivals, info, ping_res, motors, log, lastRecv,
                    matched, recvAfterMatch, pinged, faults, ip, scan_args,
                    cmd_args, history, loop_vars, conv_vars, windows >>

\* The loop body once read_line has returned `line`: "q" leaves the loop,
\* "0" sets the target velocity to 0, "acc x" sets the acceleration, a number
\* sets the target velocity and sends a velocity command; then the thread
\* sleeps 10 ms.  A failed read_line or send is returned with `?`.
velocity_loop_body ==
    /\ pc = "vel_read"
    /\ nlines < MaxLines
    /\ nlines' = nlines + 1
    /\ \E line \in Lines, read_ok \in BOOLEAN, write_ok \in BOOLEAN,
          j \in SleepJitter :
         LET inp == Trim(line)
             acc == ParseF64(Trim(SubSeq(inp, 4, Len(inp))))
             vel == ParseF64(inp)
             current_vel == vel.val
             current_acc == F64Abs(target_acceleration)
             effective_acc == IF current_vel = F64(0, 1)
                              THEN F64(BRAKE_ACC, 1) ELSE current_acc
             r == send_frame(173,
                             stream_data(MAGIC_POS,
                                         rps_to_velocity(current_vel),
                                         rps2_to_acceleration(effective_acc)),
                             write_ok)
             slept == /\ now' = now + LOOP_DELAY_MS + j
                      /\ pc' = "vel_loop"
                      /\ UNCHANGED result
         IN  IF ~read_ok
             THEN /\ result' = "Err"
                  /\ pc' = "done"
                  /\ UNCHANGED << input, target_velocity, target_acceleration,
                                  log, now, started >>
             ELSE /\ input' = inp
                  /\ IF inp = <<"q">>
                     THEN /\ result' = "Ok"
                          /\ pc' = "done"
                          /\ UNCHANGED << target_velocity, target_acceleration,
                                          log, now, started >>
                     ELSE IF inp = <<"0">>
                     THEN /\ target_velocity' = F64(0, 1)
                          /\ log' = Append(log, SleepEv(call, LOOP_DELAY_MS))
                          /\ slept
                          /\ UNCHANGED << target_acceleration, started >>
                     ELSE IF StartsWith(ToLowercase(inp), <<"a", "c", "c">>)
                     THEN /\ target_acceleration' =
                               IF acc.ok THEN acc.val ELSE target_acceleration
                          /\ log' = Append(log, SleepEv(call, LOOP_DELAY_MS))
                          /\ slept
                          /\ UNCHANGED << target_velocity, started >>
                     ELSE IF vel.ok
                     THEN /\ target_velocity' = vel.val
                          /\ UNCHANGED target_acceleration
                          /\ started' = started + 1
                          /\ IF r.ok
                             THEN /\ log' = log \o
                                       << SendEv(call, r.frame, now),
                                          SleepEv(call, LOOP_DELAY_MS) >>
                                  /\ slept
                             ELSE /\ result' = "Err"
                                  /\ pc' = "done"
                                  /\ UNCHANGED << log, now >>
                     ELSE /\ log' = Append(log, SleepEv(call, LOOP_DELAY_MS))
                          /\ slept
                          /\ UNCHANGED << target_velocity,
                                          target_acceleration, started >>
    /\ UNCHANGED << call, motor_id, iter, start_time, timeout_start, rxq,
                    arrivals, info, ping_res, motors, lastRecv, matched,
                    recvAfterMatch, pinged, faults, ip, scan_args, cmd_args,
                    history, running, prog_vars, stopped_after, conv_vars,
                    windows >>

\* -------------------------------------------- angle_stream_control: modes
\* str::split(','): the pieces between the commas.
RECURSIVE Split(_)
Split(s) ==
    LET commas == {i \in 1..Len(s) : s[i] = ","}
    IN  IF commas = {} THEN << s >>
        ELSE LET i == CHOOSE c \in commas : \A d \in commas : c <= d
             IN  << SubSeq(s, 1, i - 1) >> \o Split(SubSeq(s, i + 1, Len(s)))

\* parse_double_list: every piece trimmed and parsed, an Err if one of them
\* is no number.
parse_double_list(s) ==
    LET parts == Split(s)
        parsed == [i \in 1..Len(parts) |-> ParseF64(Trim(parts[i]))]
    IN  IF \A i \in 1..Len(parts) : parsed[i].ok
        THEN [ok |-> TRUE, list |-> [i \in 1..Len(parts) |-> parsed[i].val]]
        ELSE [ok |-> FALSE, list |-> <<>>]

\* The texts given for --angles and --positions: one angle, two angles, a
\* piece that is no number, and the empty text.
ListArgs ==
    { <<"9", "0">>,
      <<"0", ",", " ", "4", "5">>,
      <<"9", "0", ",", "x">>,
      <<>> }

\* --duration of the sine sweep and --step-time of the step control, in ms.
SineDurations == {0, 100}

StepTimes == {0, 150}

\* The targets amplitude * sin(..) of a sweep, which are not computed here:
\* any of these at each iteration.
SineTargets == { F64(45, 1), F64(-90, 1) }

\* What read_line gives the angle loop.
AngleLines ==
    { <<"q", "\n">>,
      <<"Q", "\n">>,
      <<"9", "0", "\n">>,
      <<"-", "4", "5", ".", "5", "\n">>,
      <<"s", "t", "o", "p", "\n">>,
      <<>> }

\* set_angle(controller, motor_id, angle_deg, 2.0, 3.0, 5) is entered: the
\* three conversions.
SetAngle(angle_deg) ==
    /\ cmd_args' = << degrees_to_position(angle_deg),
                      rps_to_velocity(F64(MAX_VEL_RPS, 1)),
                      nm_to_torque(F64(MAX_TQE_NM, 1)) >>
    /\ ip' = 1
    /\ started' = started + 1
    /\ pc' = "set_angle"

\* Where the mode goes on when set_angle has returned Ok.
AfterSetAngle ==
    CASE call = "run_sine_wave" -> "sine_sleep"
      [] call = "run_step_control" -> "step_wait"
      [] call = "test_positions" -> "test_sleep"
      [] OTHER -> "ang_loop"

\* One iteration of set_angle's loop: send_angle_command(..)? and a sleep of
\* 10 ms; after the last one set_angle returns Ok(()), and run_step_control
\* takes step_start.  A failed send is returned by the mode with `?`.
set_angle_step ==
    /\ pc = "set_angle"
    /\ \E write_ok \in BOOLEAN :
         LET st == send_angle_command(cmd_args[1], cmd_args[2], cmd_args[3])[1]
             r  == send_frame(st.id, st.data, write_ok)
         IN  IF ~r.ok
             THEN /\ result' = "Err"
                  /\ pc' = "done"
                  /\ UNCHANGED << log, now, ip, timeout_start >>
             ELSE /\ log' = log \o << SendEv("send_angle_command", r.frame, now),
                                     SleepEv("set_angle", SEND_DELAY_MS) >>
                  /\ now' = now + SEND_DELAY_MS
                  /\ UNCHANGED result
                  /\ IF ip = SEND_COUNT
                     THEN /\ pc' = AfterSetAngle
                          /\ timeout_start' = now + SEND_DELAY_MS
                          /\ UNCHANGED ip
                     ELSE /\ ip' = ip + 1
                          /\ UNCHANGED << pc, timeout_start >>
    /\ UNCHANGED << call, motor_id, start_time, cmd_args, history, loop_vars,
                    ping_vars, conv_vars >>

\* run_interactive_mode of angle_stream_control, `while running.load(..)`:
\* the prompt is written and read_line is entered, or the loop ends.
angle_loop_head ==
    /\ pc = "ang_loop"
    /\ IF running
       THEN /\ pc' = "ang_read"
            /\ UNCHANGED result
       ELSE /\ pc' = "done"
            /\ result' = "Ok"
    /\ UNCHANGED << call, motor_id, now, start_time, timeout_start, log, ip,
                    cmd_args, history, loop_vars, ping_vars, conv_vars >>

\* Its body once read_line has returned `line`: "q" in either case leaves the
\* loop, a number is passed to set_angle, anything else is answered with a
\* message or, if empty, with nothing.
angle_loop_body ==
    /\ pc = "ang_read"
    /\ nlines < MaxLines
    /\ nlines' = nlines + 1
    /\ \E line \in AngleLines, read_ok \in BOOLEAN :
         LET inp == Trim(line)
             angle == ParseF64(inp)
         IN  IF ~read_ok
             THEN /\ result' = "Err"
                  /\ pc' = "done"
                  /\ UNCHANGED << input, cmd_args, ip, started >>
             ELSE /\ input' = inp
                  /\ IF ToLowercase(inp) = <<"q">>
                     THEN /\ result' = "Ok"
                          /\ pc' = "done"
                          /\ UNCHANGED << cmd_args, ip, started >>
                     ELSE IF angle.ok
                     THEN /\ SetAngle(angle.val)
                          /\ UNCHANGED result
                     ELSE /\ pc' = "ang_loop"
                          /\ UNCHANGED << result, cmd_args, ip, started >>
    /\ UNCHANGED << call, motor_id, now, start_time, timeout_start, log,
                    history, running, target_velocity, target_acceleration,
                    prog_vars, stopped_after, ping_vars, conv_vars >>

\* run_sine_wave, `while running.load(..) && elapsed < duration_sec`: the
\* next target is passed to set_angle, or the loop ends.
sine_loop_head ==
    /\ pc = "sine_loop"
    /\ IF running /\ now - start_time < duration
       THEN /\ \E target_deg \in SineTargets : SetAngle(target_deg)
            /\ UNCHANGED result
       ELSE /\ pc' = "done"
            /\ result' = "Ok"
            /\ UNCHANGED << cmd_args, ip, started >>
    /\ UNCHANGED << call, motor_id, now, start_time, timeout_start, log,
                    history, running, target_velocity, target_acceleration,
                    input, nlines, prog_vars, stopped_after, ping_vars,
                    conv_vars >>

\* The end of its body: the target is shown and the thread sleeps 10 ms.
sine_loop_sleep ==
    /\ pc = "sine_sleep"
    /\ \E j \in SleepJitter : now' = now + SINE_DELAY_MS + j
    /\ log' = Append(log, SleepEv(call, SINE_DELAY_MS))
    /\ pc' = "sine_loop"
    /\ UNCHANGED << call, motor_id, start_time, timeout_start, result, ip,
                    cmd_args, history, loop_vars, ping_vars, conv_vars >>

\* The head of `for .. in angles.iter()` in run_step_control and of
\* `for .. in positions.iter()` in test_positions: the loop ends with the
\* list, `break` leaves it when the flag is down, otherwise the next angle is
\* passed to set_angle.
ForNextAngle ==
    /\ IF angles = <<>> \/ ~running
       THEN /\ pc' = "done"
            /\ result' = "Ok"
            /\ UNCHANGED << angles, cmd_args, ip, started >>
       ELSE /\ SetAngle(Head(angles))
            /\ angles' = Tail(angles)
            /\ UNCHANGED result
    /\ UNCHANGED << call, motor_id, now, start_time, timeout_start, log,
                    history, running, target_velocity, target_acceleration,
                    input, nlines, program, prog_mode, angles_arg, duration,
                    stopped_after, ping_vars, conv_vars >>

step_loop_head ==
    /\ pc = "step_loop"
    /\ ForNextAngle

\* run_step_control's inner loop, `while running.load(..) && step_start
\* .elapsed() < step_duration_sec`: the remaining time is shown and the
\* thread sleeps 100 ms, or the step is over.
step_loop_wait ==
    /\ pc = "step_wait"
    /\ IF running /\ now - timeout_start < duration
       THEN /\ \E j \in SleepJitter : now' = now + STEP_POLL_MS + j
            /\ log' = Append(log, SleepEv(call, STEP_POLL_MS))
            /\ UNCHANGED pc
       ELSE /\ pc' = "step_loop"
            /\ UNCHANGED << now, log >>
    /\ UNCHANGED << call, motor_id, start_time, timeout_start, result, ip,
                    cmd_args, history, loop_vars, ping_vars, conv_vars >>

test_loop_head ==
    /\ pc = "test_loop"
    /\ ForNextAngle

\* test_positions after set_angle: the thread sleeps 2 s.
test_loop_sleep ==
    /\ pc = "test_sleep"
    /\ \E j \in SleepJitter : now' = now + TEST_SETTLE_MS + j
    /\ log' = Append(log, SleepEv(call, TEST_SETTLE_MS))
    /\ pc' = "test_loop"
    /\ UNCHANGED << call, motor_id, start_time, timeout_start, result, ip,
                    cmd_args, history, loop_vars, ping_vars, conv_vars >>

\* ------------------------------------------- the control programs: main
Programs == {"velocity_acceleration_control", "angle_stream_control"}

\* args.motor_id: the default and the largest u8.
ProgramMotorIds == {1, 255}

Modes == {"Interactive", "Sine", "Step", "Test"}

\* What main calls to enable the motor, and the function it runs then.
EnableCall(prog) ==
    IF prog = "velocity_acceleration_control" THEN "enable_velocity_mode"
    ELSE "enable_motor"

ModeCall ==
    CASE prog_mode = "Interactive" -> "angle_run_interactive_mode"
      [] prog_mode = "Sine" -> "run_sine_wave"
      [] prog_mode = "Step" -> "run_step_control"
      [] prog_mode = "Test" -> "test_positions"
      [] OTHER -> "run_interactive_mode"

ModeCalls ==
    {"run_interactive_mode", "angle_run_interactive_mode", "run_sine_wave",
     "run_step_control", "test_positions"}

ModeEntry ==
    CASE prog_mode = "Interactive" -> "ang_loop"
      [] prog_mode = "Sine" -> "sine_loop"
      [] prog_mode = "Step" -> "step_loop"
      [] prog_mode = "Test" -> "test_loop"
      [] OTHER -> "vel_loop"

\* main returns: the process ends with what the last call returned having
\* been taken note of.
Exit(res) ==
    /\ pc' = "exit"
    /\ result' = res
    /\ history' = Append(history, CallRecord)

\* main makes its next call on the controller.
MainCalls(op) ==
    /\ call' = op
    /\ history' = Append(history, CallRecord)
    /\ result' = "none"
    /\ log' = <<>>
    /\ now' = 0

\* A control program is started: Args::parse, the Ctrl+C handler is set, the
\* controller is opened, and main calls enable_velocity_mode(args.motor_id)
\* or enable_motor(args.motor_id).
call_main ==
    /\ pc = "idle"
    /\ \E id \in ProgramMotorIds : motor_id' = id
    /\ \/ /\ program' = "velocity_acceleration_control"
          /\ prog_mode' = "none"
          /\ angles_arg' = <<>>
          /\ duration' = 0
       \/ /\ program' = "angle_stream_control"
          /\ \E m \in Modes :
               /\ prog_mode' = m
               /\ \E a \in ListArgs :
                    angles_arg' = IF m \in {"Step", "Test"} THEN a ELSE <<>>
               /\ \E d \in SineDurations, t \in StepTimes :
                    duration' = CASE m = "Sine" -> d
                                  [] m = "Step" -> t
                                  [] OTHER -> 0
    /\ call' = EnableCall(program')
    /\ ip' = 1
    /\ pc' = "command"
    /\ UNCHANGED << now, start_time, timeout_start, result, log, cmd_args,
                    history, running, target_velocity, target_acceleration,
                    input, nlines, angles, stop_vars, ping_vars, conv_vars >>

\* The enable call has returned: `?` ends main with its error; otherwise the
\* list of a Step or Test mode is parsed, again with `?`, and the mode's
\* function is entered (run_interactive_mode of the velocity program with
\* set_target_acceleration(default_acc), run_sine_wave with start_time).
main_run_mode ==
    /\ program # "none"
    /\ pc = "done"
    /\ call = EnableCall(program)
    /\ LET parsed == parse_double_list(angles_arg)
       IN  IF result = "Err" \/ (prog_mode \in {"Step", "Test"} /\ ~parsed.ok)
           THEN /\ Exit("Err")
                /\ UNCHANGED << call, now, start_time, log, angles,
                                target_acceleration >>
           ELSE /\ MainCalls(ModeCall)
                /\ pc' = ModeEntry
                /\ start_time' = 0
                /\ angles' = IF prog_mode \in {"Step", "Test"}
                             THEN parsed.list ELSE <<>>
                /\ target_acceleration' =
                     IF program = "velocity_acceleration_control"
                     THEN F64(DEFAULT_ACC, 1) ELSE target_acceleration
    /\ UNCHANGED << motor_id, timeout_start, ip, cmd_args, running,
                    target_velocity, input, nlines, program, prog_mode,
                    angles_arg, duration, stop_vars, ping_vars, conv_vars >>

\* The mode's function has returned: `?` ends main with its error, otherwise
\* main calls disable_motor(args.motor_id).
main_cleanup ==
    /\ program # "none"
    /\ pc = "done"
    /\ call \in ModeCalls
    /\ IF result = "Err"
       THEN /\ Exit("Err")
            /\ UNCHANGED << call, now, log, ip >>
       ELSE /\ MainCalls("disable_motor")
            /\ ip' = 1
            /\ pc' = "command"
    /\ UNCHANGED << motor_id, start_time, timeout_start, cmd_args, loop_vars,
                    ping_vars, conv_vars >>

\* disable_motor has returned: main returns its error, or Ok(()).
main_exit ==
    /\ program # "none"
    /\ pc = "done"
    /\ call = "disable_motor"
    /\ Exit(result)
    /\ UNCHANGED << call, motor_id, now, start_time, timeout_start, log, ip,
                    cmd_args, loop_vars, ping_vars, conv_vars >>

Next ==
    \/ call_ping_motor
    \/ ping_motor_send
    \/ ping_motor_settle
    \/ ping_motor_window_elapsed
    \/ ping_motor_recv
    \/ ping_motor_return
    \/ bus_deliver
    \/ call_scan_range
    \/ call_scan_motors
    \/ scan_next
    \/ scan_range_body
    \/ scan_motors_body
    \/ call_command
    \/ call_stream_command
    \/ command_step
    \/ call_convert
    \/ call_run_interactive_mode
    \/ ctrlc_handler
    \/ velocity_loop_head
    \/ velocity_loop_body
    \/ set_angle_step
    \/ angle_loop_head
    \/ angle_loop_body
    \/ sine_loop_head
    \/ sine_loop_sleep
    \/ step_loop_head
    \/ step_loop_wait
    \/ test_loop_head
    \/ test_loop_sleep
    \/ call_main
    \/ main_run_mode
    \/ main_cleanup
    \/ main_exit

Spec == Init /\ [][Next]_vars

\* A call of ping_motor on a bus that may go on delivering frames for ever.
\* The calling thread keeps running and every read returns, with a frame or
\* at its timeout: ping_motor's own steps are weakly fair.  The caller and the
\* bus are not.
PingStep ==
    \/ ping_motor_send
    \/ ping_motor_settle
    \/ ping_motor_window_elapsed
    \/ ping_motor_recv
    \/ ping_motor_recv_flood
    \/ ping_motor_return

NextLive ==
    \/ call_ping_motor
    \/ ping_motor_send
    \/ ping_motor_settle
    \/ ping_motor_window_elapsed
    \/ ping_motor_recv
    \/ ping_motor_recv_flood
    \/ ping_motor_return
    \/ bus_deliver

LiveSpec == Init /\ [][NextLive]_vars /\ WF_vars(PingStep)

\* ================================================================ claims
\* The IDs start_id..=end_id of the running scan, in order.
ScanIds ==
    [i \in 1..(IF scan_args[2] >= scan_args[1]
               THEN scan_args[2] - scan_args[1] + 1 ELSE 0)
       |-> scan_args[1] + i - 1]

Sends == SelectSeq(log, LAMBDA e : e.ev = "send")

\* C1: scan_range isolates per-ID transport faults: whatever send or receive
\* failed, scan_range returns Ok with one entry for every ID of the range, in
\* order, the IDs whose ping met the fault being offline.
C1_ScanRangeIsolatesFaults ==
    (call = "scan_range" /\ pc = "done") =>
        /\ result = "Ok"
        /\ Len(motors) = Len(ScanIds)
        /\ \A i \in 1..Len(motors) :
             /\ motors[i].motor_id = ScanIds[i]
             /\ (ScanIds[i] \in faults => ~motors[i].is_online)

\* source_id and direct_id as the identifier's bits give them.
SourceBits(frame) == (frame.id \div 256) % 128

DirectBits(frame) == frame.id % 256

\* C2 (as claimed): a received frame is accepted for motor_id if its
\* source_id is in [1,127] and equals motor_id, or if its direct_id equals
\* motor_id whatever its source_id is.
C2_AcceptedIfEitherIdMatches ==
    lastRecv.tag = "Some" =>
        (lastRecv.accepted <=>
            \/ /\ SourceBits(lastRecv.frame) \in 1..127
               /\ SourceBits(lastRecv.frame) = motor_id
            \/ DirectBits(lastRecv.frame) = motor_id)

\* C2 (amended): a received frame is accepted for motor_id exactly if its
\* source_id is in [1,127] and equals motor_id, or its source_id is 0 and its
\* direct_id equals motor_id; every other frame is ignored: the ping stays
\* offline and goes on polling until its window ends.
C2_AcceptedIffSourceElseDirect ==
    lastRecv.tag = "Some" =>
        /\ lastRecv.accepted <=>
             \/ /\ SourceBits(lastRecv.frame) \in 1..127
                /\ SourceBits(lastRecv.frame) = motor_id
             \/ /\ SourceBits(lastRecv.frame) = 0
                /\ DirectBits(lastRecv.frame) = motor_id
        /\ lastRecv.accepted <=> info.is_online
        /\ ~lastRecv.accepted =>
             /\ pc \in {"ping_poll", "ping_return", "done"}
             /\ (pc # "ping_poll" => ~WindowOpen)
             /\ matched = NoFrame

\* C2 witness: a frame whose direct_id is the pinged ID and whose source_id is
\* another motor's was read and ignored.
C2_Witness ==
    /\ lastRecv.tag = "Some"
    /\ DirectBits(lastRecv.frame) = motor_id
    /\ SourceBits(lastRecv.frame) \in 1..127
    /\ SourceBits(lastRecv.frame) # motor_id
    /\ ~lastRecv.accepted
    /\ pc = "ping_poll"

\* C3: the identity detected for a received frame is its source_id whenever
\* that is in [1,127], the direct_id decides only when source_id is 0 (and
\* then a frame with direct_id = motor_id is accepted), and standard and
\* extended identifiers are taken apart by the same bit layout.
C3_SourceIdPrecedence ==
    lastRecv.tag = "Some" =>
        /\ lastRecv.source_id = SourceBits(lastRecv.frame)
        /\ lastRecv.direct_id = DirectBits(lastRecv.frame)
        /\ lastRecv.source_id \in 1..127 =>
             /\ lastRecv.detected_id = lastRecv.source_id
             /\ lastRecv.accepted <=> lastRecv.source_id = motor_id
        /\ lastRecv.source_id = 0 =>
             lastRecv.accepted <=> lastRecv.direct_id = motor_id

\* C3 witness: identifier 0x0705 read while motor 7 is pinged is attributed
\* to motor 7 and accepted.
C3_Witness ==
    /\ lastRecv.tag = "Some"
    /\ lastRecv.frame.id = 1797
    /\ motor_id = 7
    /\ lastRecv.detected_id = 7
    /\ lastRecv.accepted
    /\ info.is_online

\* C4: when ping_motor returns without having accepted a frame, every receive
\* having returned None or a frame that did not match, it returns Ok with
\* motor_id the requested ID, is_online false, response_time_ms 0 and name
\* and hardware_version "Unknown".
C4_NotFoundIsOkOffline ==
    (pc = "ping_return" /\ matched = NoFrame /\ motor_id \notin faults) =>
        /\ ping_res = "Ok"
        /\ info.motor_id = motor_id
        /\ info.is_online = FALSE
        /\ info.response_time_ms = 0
        /\ info.name = <<85, 110, 107, 110, 111, 119, 110>>
        /\ info.hardware_version = <<85, 110, 107, 110, 111, 119, 110>>

\* C4 witness: the window ended after frames were read and ignored, the last
\* read having timed out.
C4_Witness ==
    /\ pc = "ping_return"
    /\ ping_res = "Ok"
    /\ matched = NoFrame
    /\ motor_id \notin faults
    /\ arrivals > 0
    /\ rxq = <<>>
    /\ lastRecv.tag = "None"
    /\ ~WindowOpen

\* C5: receive(timeout) returns None whenever the read timeout expired with
\* no frame, however the socket reports the expiry, and an error only for an
\* I/O fault that is no timeout.
C5_ExpiredTimeoutIsNone ==
    /\ lastRecv.raw \in ExpiryKinds => lastRecv.tag = "None"
    /\ lastRecv.tag = "None" => lastRecv.raw \in ExpiryKinds
    /\ lastRecv.tag = "Err" => lastRecv.raw = "Other"

\* C6 (as claimed): no receive is started 50 ms or more after the ping frame
\* was sent.
C6_NoRecvFrom50msAfterSend ==
    lastRecv.tag # "NoRecv" => lastRecv.since_sent < 50

\* C6 (amended): the 50 ms window starts when the settle delay has ended: no
\* receive is started before the settle delay (at least 10 ms after the send)
\* is over, nor 50 ms or more after it ended.
C6_NoRecvFrom50msAfterSettle ==
    lastRecv.tag # "NoRecv" =>
        /\ lastRecv.since_poll >= 0
        /\ lastRecv.since_poll < 50
        /\ lastRecv.since_sent >= 10 + lastRecv.since_poll

\* C6 witness: a receive started 50 ms or more after the send, less than 50 ms
\* after the settle delay ended.
C6_Witness ==
    /\ lastRecv.tag # "NoRecv"
    /\ lastRecv.since_sent >= 50
    /\ lastRecv.since_poll < 50

\* C7: once a frame is accepted, ping_motor reads no further frame and
\* returns; the result is what that frame and the time of its arrival give.
C7_FirstMatchWins ==
    matched # NoFrame =>
        /\ recvAfterMatch = 0
        /\ pc \in {"ping_return", "done"}
        /\ ping_res = "Ok"
        /\ lastRecv.frame = matched
        /\ lastRecv.accepted
        /\ info = ParseReply([MotorInfoDefault EXCEPT !.motor_id = motor_id],
                             matched.data, now - start_time)

\* C7 witness: a frame was accepted while another one was waiting in the
\* socket's queue, unread.
C7_Witness ==
    /\ matched # NoFrame
    /\ pc = "ping_return"
    /\ rxq # <<>>
    /\ info.is_online

\* C8: scan_range pings the IDs start_id..=end_id in ascending order, each
\* once; when it has ended without a transport fault it returned Ok with one
\* entry per ID, in order, and slept 10 ms after each ping.
C8_ScanRangeEveryIdOnceInOrder ==
    call = "scan_range" =>
        /\ Len(pinged) <= Len(ScanIds)
        /\ \A i \in 1..Len(pinged) : pinged[i] = ScanIds[i]
        /\ (pc = "done" /\ faults = {}) =>
             /\ result = "Ok"
             /\ pinged = ScanIds
             /\ Len(motors) = scan_args[2] - scan_args[1] + 1
             /\ \A i \in 1..Len(motors) :
                  motors[i].motor_id = scan_args[1] + i - 1
             /\ Len(log) = 3 * Len(motors)
             /\ \A i \in 1..Len(motors) :
                  /\ log[3 * i - 2].ev = "send"
                  /\ log[3 * i - 2].frame.id = 32768 + scan_args[1] + i - 1
                  /\ log[3 * i] = SleepEv("scan_range", 10)

\* C8 witness: a scan ending at ID 255 returned an online and an offline
\* entry.
C8_Witness ==
    /\ call = "scan_range"
    /\ pc = "done"
    /\ result = "Ok"
    /\ scan_args[2] = 255
    /\ Len(motors) = 2
    /\ ~motors[1].is_online
    /\ motors[2].is_online

\* C9: the mode-select frames of enable_motor, enable_velocity_mode and
\* disable_motor carry the motor ID as a standard (11-bit) identifier; only
\* the ping frame is an extended frame.
C9_ModeFramesStandardId ==
    \A i \in 1..Len(Sends) :
        LET e == Sends[i]
        IN  /\ (e.by \in Commands /\ e.frame.data[1] = 1) => ~e.frame.ext
            /\ e.by = "ping_motor" => e.frame.ext

\* C10: enable_motor sends to motor_id, in this order, the mode frame
\* [0x01,0x00,0x0A,pad x5], at least 50 ms later the Kp write (register 0x23,
\* 1.0) and at least 20 ms later the Kd write (register 0x24, 0.1): what it
\* has sent is always the beginning of that sequence, and all of it when it
\* returns Ok.
C10_EnableMotorSequence ==
    call = "enable_motor" =>
        LET want == << <<1, 0, 10, 80, 80, 80, 80, 80>>,
                       <<13, 35, 0, 0, 128, 63, 80, 80>>,
                       <<13, 36, 205, 204, 204, 61, 80, 80>> >>
            gap == <<50, 20>>
        IN  /\ Len(Sends) <= 3
            /\ \A i \in 1..Len(Sends) :
                 /\ Sends[i].frame.id = motor_id
                 /\ Sends[i].frame.data = want[i]
                 /\ i > 1 => Sends[i].ms - Sends[i - 1].ms >= gap[i - 1]
            /\ (pc = "done" /\ result = "Ok") => Len(Sends) = 3
            /\ \A k \in 1..Len(log) :
                 log[k].ev = "sleep" =>
                    /\ k > 1
                    /\ log[k - 1].ev = "send"
                    /\ log[k].ms = (IF log[k - 1].frame.data = want[1]
                                    THEN 50 ELSE 20)
                    /\ log[k - 1].frame.data # want[3]

\* C10 witness: enable_motor returned Ok after its three frames.
C10_Witness ==
    /\ call = "enable_motor"
    /\ pc = "done"
    /\ result = "Ok"
    /\ Len(Sends) = 3
    /\ Len(log) = 5

\* C11: enable_velocity_mode sends to motor_id, in this order, the mode frame
\* [0x01,0x00,0x0A,pad x5], at least 50 ms later the torque-limit write
\* (register 0x22, 3.0), at least 20 ms later the Kp write (register 0x23,
\* 2.0) and then the Kd write (register 0x24, 0.2), with no delay of its own
\* between the last two: what it has sent is always the beginning of that
\* sequence, and all four frames, no more, when it returns Ok.
C11_EnableVelocityModeSequence ==
    call = "enable_velocity_mode" =>
        LET want == << <<1, 0, 10, 80, 80, 80, 80, 80>>,
                       <<13, 34, 0, 0, 64, 64, 80, 80>>,
                       <<13, 35, 0, 0, 0, 64, 80, 80>>,
                       <<13, 36, 205, 204, 76, 62, 80, 80>> >>
            gap == <<50, 20, 0>>
        IN  /\ Len(Sends) <= 4
            /\ \A i \in 1..Len(Sends) :
                 /\ Sends[i].frame.id = motor_id
                 /\ Sends[i].frame.data = want[i]
                 /\ i > 1 => Sends[i].ms - Sends[i - 1].ms >= gap[i - 1]
            /\ (pc = "done" /\ result = "Ok") => Len(Sends) = 4
            /\ \A k \in 1..Len(log) :
                 log[k].ev = "sleep" =>
                    /\ k > 1
                    /\ log[k - 1].ev = "send"
                    /\ log[k - 1].frame.data \in {want[1], want[2]}
                    /\ log[k].ms = (IF log[k - 1].frame.data = want[1]
                                    THEN 50 ELSE 20)

\* C11 witness: enable_velocity_mode returned Ok after its four frames, the
\* last two written back to back.
C11_Witness ==
    /\ call = "enable_velocity_mode"
    /\ pc = "done"
    /\ result = "Ok"
    /\ Len(Sends) = 4
    /\ Len(log) = 6
    /\ Sends[4].ms = Sends[3].ms

\* The calls that have returned so far, in order.
Returned ==
    IF pc = "done" /\ call \in Commands THEN Append(history, CallRecord)
    ELSE history

\* C12: disable_motor sends a single mode frame with mode byte 0 and is
\* idempotent: every call that returns Ok wrote exactly one frame, with
\* identifier motor_id and payload [0x01,0x00,0x00,pad x5], whatever calls
\* came before it, so that repeated calls for the same motor_id wrote
\* identical frames; a call whose write failed wrote nothing.
C12_DisableMotorIdempotent ==
    \A i \in 1..Len(Returned) :
        Returned[i].op = "disable_motor" =>
            /\ Returned[i].result \in {"Ok", "Err"}
            /\ Returned[i].result = "Err" => Returned[i].frames = <<>>
            /\ Returned[i].result = "Ok" =>
                 /\ Len(Returned[i].frames) = 1
                 /\ Returned[i].frames[1].id = Returned[i].id
                 /\ Returned[i].frames[1].data = <<1, 0, 0, 80, 80, 80, 80, 80>>
            /\ \A j \in 1..Len(Returned) :
                 ( /\ Returned[j].op = "disable_motor"
                   /\ Returned[j].id = Returned[i].id
                   /\ Returned[j].result = Returned[i].result )
                 => Returned[j].frames = Returned[i].frames

\* C12 witness: disable_motor was called twice running for motor 5 and both
\* calls returned Ok.
C12_Witness ==
    /\ Len(Returned) >= 2
    /\ \E i \in 1..(Len(Returned) - 1) :
         /\ Returned[i].op = "disable_motor"
         /\ Returned[i + 1].op = "disable_motor"
         /\ Returned[i].id = 5
         /\ Returned[i + 1].id = 5
         /\ Returned[i].result = "Ok"
         /\ Returned[i + 1].result = "Ok"
         /\ Returned[i + 1].frames # <<>>

\* C13: each call of ping_motor(motor_id) writes exactly one frame, before it
\* reads: identifier 0x8000 | motor_id, payload [0x11,0x00,0x50 x6]; it is
\* followed by the settle delay and then only by reads, and it is never
\* written again, whether or not a reply arrives.
C13_PingSendsOnce ==
    call \in {"ping_motor", "scan_range", "scan_motors"} =>
        LET mine == SelectSeq(Sends, LAMBDA e : e.frame.id = 32768 + motor_id)
        IN  /\ \A i \in 1..Len(Sends) :
                 /\ Sends[i].by = "ping_motor"
                 /\ Sends[i].frame.data = <<17, 0, 80, 80, 80, 80, 80, 80>>
                 /\ \E k \in 1..Len(pinged) :
                      Sends[i].frame.id = 32768 + pinged[k]
            /\ Len(mine) <= 1
            /\ pc \in {"ping_settle", "ping_poll"} => Len(mine) = 1
            /\ lastRecv.tag # "NoRecv" =>
                 /\ Len(mine) = 1
                 /\ log[Len(log)] = SleepEv("ping_motor", 10)
                 /\ log[Len(log) - 1] = mine[1]

\* C13 witness: the window of a ping ended with no frame having arrived at
\* all, every read having timed out, and one ping frame written.
C13_Witness ==
    /\ call = "ping_motor"
    /\ pc = "ping_return"
    /\ ping_res = "Ok"
    /\ arrivals = 0
    /\ lastRecv.tag = "None"
    /\ ~WindowOpen
    /\ Len(Sends) = 1
    /\ Sends[1].frame.id = 32768 + 255

\* The scaled value of a finite argument as a fraction <<N, D>>, D > 0:
\* (angle / 360) * 10000 = angle * 250 / 9, velocity * 4000,
\* acceleration * 1000, torque * 200.
Scaled(fn, x) ==
    CASE fn = "degrees_to_position" -> << x.n * 250, x.d * 9 >>
      [] fn = "rps_to_velocity" -> << x.n * 4000, x.d >>
      [] fn = "rps2_to_acceleration" -> << x.n * 1000, x.d >>
      [] OTHER -> << x.n * 200, x.d >>

\* C14: the conversion functions saturate and never wrap: a scaled value
\* above 32767 gives 32767, one below -32768 gives -32768, one in between
\* gives the scaled value truncated toward zero, and the result is always in
\* [-32768, 32767] (also for NaN and the infinities).
C14_ConversionsSaturate ==
    (call \in Conversions /\ pc = "done") =>
        /\ conv_ret \in -32768..32767
        /\ conv_arg.k = "num" =>
             LET N == Scaled(call, conv_arg)[1]
                 D == Scaled(call, conv_arg)[2]
             IN  /\ N > 32767 * D => conv_ret = 32767
                 /\ N < -32768 * D => conv_ret = -32768
                 /\ (N <= 32767 * D /\ N >= -32768 * D) =>
                      /\ Abs(conv_ret) * D <= Abs(N)
                      /\ Abs(N) < (Abs(conv_ret) + 1) * D
                      /\ (conv_ret > 0 => N > 0)
                      /\ (conv_ret < 0 => N < 0)

\* C14 witness: an angle whose scaled value is 32768.55..., just above the
\* end of i16, was converted to 32767.
C14_Witness ==
    /\ call = "degrees_to_position"
    /\ pc = "done"
    /\ conv_arg = F64(301995, 256)
    /\ conv_ret = 32767

\* C15: send_angle_command writes one frame to identifier 0x0090 and
\* send_velocity_command one frame to identifier 0x00AD, whose payload is
\* [lo(x1), hi(x1), lo(x2), hi(x2), lo(x3), hi(x3), 0x50, 0x50]: the three
\* i16 arguments in argument order, each little-endian in two's complement
\* (the sentinel -32768 as 0x00, 0x80).
C15_StreamFrameLayout ==
    call \in StreamCommands =>
        /\ Len(Sends) <= 1
        /\ (pc = "done" /\ result = "Ok") => Len(Sends) = 1
        /\ \A i \in 1..Len(Sends) :
             LET d == Sends[i].frame.data
             IN  /\ Sends[i].frame.id =
                      (IF call = "send_angle_command" THEN 144 ELSE 173)
                 /\ Len(d) = 8
                 /\ d[7] = 80
                 /\ d[8] = 80
                 /\ \A k \in 1..3 :
                      /\ d[2 * k - 1] \in 0..255
                      /\ d[2 * k] \in 0..255
                      /\ d[2 * k - 1] + 256 * d[2 * k] =
                           (IF cmd_args[k] >= 0 THEN cmd_args[k]
                            ELSE cmd_args[k] + 65536)
                 /\ cmd_args[1] = -32768 => (d[1] = 0 /\ d[2] = 128)

\* C15 witness: send_velocity_command returned Ok for the sentinel position
\* -32768, velocity 0 and acceleration 30000 (0x7530).
C15_Witness ==
    /\ call = "send_velocity_command"
    /\ pc = "done"
    /\ result = "Ok"
    /\ cmd_args = <<-32768, 0, 30000>>
    /\ Len(Sends) = 1
    /\ Sends[1].frame.id = 173
    /\ Sends[1].frame.data = <<0, 128, 0, 0, 48, 117, 80, 80>>

\* t is b with its trailing NUL bytes taken off.
IsTrimOf(t, b) ==
    /\ Len(t) <= Len(b)
    /\ SubSeq(b, 1, Len(t)) = t
    /\ (t = <<>> \/ t[Len(t)] # 0)
    /\ \A i \in (Len(t) + 1)..Len(b) : b[i] = 0

\* C16 (as claimed): on an accepted reply the name is payload bytes 1-3 with
\* the trailing NULs trimmed if and only if the payload has at least 4 bytes
\* and byte 0 is 0x51, otherwise "Unknown"; the hardware version is payload
\* bytes 4-7, trimmed, whenever the payload has at least 8 bytes, otherwise
\* "Unknown".
C16_NameAndVersionFromPayload ==
    matched # NoFrame =>
        LET d == matched.data
        IN  /\ IF Len(d) >= 4 /\ d[1] = 81
               THEN IsTrimOf(info.name, SubSeq(d, 2, 4))
               ELSE info.name = <<85, 110, 107, 110, 111, 119, 110>>
            /\ IF Len(d) >= 8
               THEN IsTrimOf(info.hardware_version, SubSeq(d, 5, 8))
               ELSE info.hardware_version = <<85, 110, 107, 110, 111, 119, 110>>

\* C16 (amended): the name is payload bytes 1-3, trimmed, if and only if the
\* payload has at least 4 bytes, byte 0 is 0x51 and bytes 1-3 are valid
\* UTF-8; the hardware version is payload bytes 4-7, trimmed, if and only if
\* the payload has at least 8 bytes and bytes 4-7 are valid UTF-8, whatever
\* byte 0 is; a field that is not taken keeps "Unknown".
C16_NameAndVersionIfValidUtf8 ==
    matched # NoFrame =>
        LET d == matched.data
        IN  /\ IF Len(d) >= 4 /\ d[1] = 81 /\ IsUtf8(SubSeq(d, 2, 4))
               THEN IsTrimOf(info.name, SubSeq(d, 2, 4))
               ELSE info.name = <<85, 110, 107, 110, 111, 119, 110>>
            /\ IF Len(d) >= 8 /\ IsUtf8(SubSeq(d, 5, 8))
               THEN IsTrimOf(info.hardware_version, SubSeq(d, 5, 8))
               ELSE info.hardware_version = <<85, 110, 107, 110, 111, 119, 110>>

\* C16 witness: a reply whose byte 0 is not 0x51 was accepted: the name stays
\* "Unknown", the version is "v2".
C16_Witness ==
    /\ matched # NoFrame
    /\ Len(matched.data) = 8
    /\ matched.data[1] # 81
    /\ info.name = <<85, 110, 107, 110, 111, 119, 110>>
    /\ info.hardware_version = <<118, 50>>

\* C17: a transport fault is returned by the operation it happened in, at
\* once.  A command whose send fails returns Err with the frames before the
\* failed one written and none after it, and returns Ok only with all its
\* frames written; ping_motor returns Err, not a MotorInfo, exactly when its
\* send failed or a receive returned an error, and then it has accepted no
\* frame and reads no more.
C17_FaultsPropagate ==
    /\ call \in Commands =>
         /\ pc = "command" => (result = "none" /\ Len(Sends) = ip - 1)
         /\ pc = "done" =>
              /\ result \in {"Ok", "Err"}
              /\ result = "Ok" <=> Len(Sends) = Len(Program)
              /\ result = "Err" =>
                   /\ Len(Sends) = ip - 1
                   /\ Len(Sends) < Len(Program)
                   /\ log # <<>> =>
                        \/ log[Len(log)].ev = "sleep"
                        \/ Program[ip - 1].sleep_ms = 0
    /\ call \in {"ping_motor", "scan_range", "scan_motors"} =>
         /\ lastRecv.raw = "Other" => lastRecv.tag = "Err"
         /\ lastRecv.tag = "Err" =>
              /\ ping_res = "Err"
              /\ pc \in {"ping_return", "done"}
         /\ ( /\ pc = "ping_return"
              /\ \A i \in 1..Len(Sends) :
                   Sends[i].frame.id # 32768 + motor_id ) =>
              /\ ping_res = "Err"
              /\ lastRecv.tag = "NoRecv"
         /\ ping_res = "Err" =>
              /\ motor_id \in faults
              /\ matched = NoFrame
              /\ ~info.is_online
         /\ (call = "ping_motor" /\ pc = "done") =>
              /\ result = ping_res
              /\ result = "Err" <=> motor_id \in faults
         /\ (call = "scan_range" /\ pc = "done" /\ faults # {}) =>
              result = "Err"

\* C17 witness: the third send of enable_velocity_mode failed: it returned
\* Err after the mode frame and the torque-limit write, the Kp and Kd writes
\* unsent.
C17_Witness ==
    /\ call = "enable_velocity_mode"
    /\ pc = "done"
    /\ result = "Err"
    /\ Len(Sends) = 2
    /\ ip = 3

\* C18: in the velocity loop the line "0" is an emergency stop: in the
\* iteration that read it a velocity command frame is written, identifier
\* 0x00AD with the sentinel position, velocity 0 and the brake acceleration
\* (30 rad/s^2, 30000), as a numeric line makes the loop write one.
C18_ZeroSendsStopFrame ==
    ( /\ call = "run_interactive_mode"
      /\ pc = "vel_loop"
      /\ nlines > 0
      /\ input = <<"0">> ) =>
        /\ Len(log) >= 2
        /\ log[Len(log)].ev = "sleep"
        /\ log[Len(log) - 1].ev = "send"
        /\ log[Len(log) - 1].frame.id = 173
        /\ log[Len(log) - 1].frame.data = <<0, 128, 0, 0, 48, 117, 80, 80>>

\* Every frame written so far in this behaviour, by the earlier calls and by
\* the running one.
AllFrames ==
    UNION { { history[i].frames[k] : k \in 1..Len(history[i].frames) } :
              i \in 1..Len(history) }
    \cup { Sends[i].frame : i \in 1..Len(Sends) }

\* C19: every frame a public operation writes, in any sequence of calls, has
\* a payload of exactly 8 bytes whose last two bytes are 0x50 and whose other
\* unused bytes are 0x50 too (bytes 2-7 of a ping, 3-7 of a mode frame, 6-7
\* of a register write and of a stream command), and an identifier of at
\* most 29 bits; building a frame never fails: a send whose socket write
\* succeeds succeeds.
C19_PayloadsWellFormed ==
    /\ \A f \in AllFrames :
         /\ Len(f.data) = 8
         /\ \A i \in 1..8 : f.data[i] \in 0..255
         /\ f.data[7] = 80
         /\ f.data[8] = 80
         /\ f.id \in 0..536870911
    /\ \A i \in 1..Len(Sends) :
         LET d == Sends[i].frame.data
         IN  /\ Sends[i].by = "ping_motor" =>
                  \A k \in 3..8 : d[k] = 80
             /\ (Sends[i].by \in IdCommands /\ d[1] = 1) =>
                  \A k \in 4..8 : d[k] = 80
    /\ pc = "command" =>
         send_frame(Program[ip].id, Program[ip].data, TRUE).ok
    /\ pc = "ping_motor" =>
         send_frame(32768 + motor_id, ping_data, TRUE).ok

\* C19 witness: after enable_velocity_mode(255) had written its four frames,
\* send_angle_command wrote its frame.
C19_Witness ==
    /\ Len(history) >= 1
    /\ history[Len(history)].op = "enable_velocity_mode"
    /\ history[Len(history)].id = 255
    /\ Len(history[Len(history)].frames) = 4
    /\ call = "send_angle_command"
    /\ pc = "done"
    /\ result = "Ok"
    /\ Len(Sends) = 1

\* C20: ping_motor always terminates, also on a bus that delivers frames of
\* other motors without a pause: a call that has been entered returns, and
\* when it returns without a fault and without having accepted a frame it
\* returns the offline result, no later than one read timeout after the
\* 50 ms window ended.
C20_PingTerminates ==
    /\ (pc = "ping_motor") ~> (pc = "done")
    /\ [](pc = "done" =>
            /\ result \in {"Ok", "Err"}
            /\ now - timeout_start < 50 + 10
            /\ (matched = NoFrame /\ motor_id \notin faults) =>
                 /\ result = "Ok"
                 /\ ~info.is_online
                 /\ info.motor_id = motor_id)

\* C20 witness: twelve frames were read and every one rejected, two of them
\* from the queue and ten arriving 5 ms apart, which takes up the whole
\* 50 ms window, so that no read timed out; then ping_motor returned offline.
C20_Witness ==
    /\ pc = "done"
    /\ result = "Ok"
    /\ matched = NoFrame
    /\ ~info.is_online
    /\ arrivals = 12
    /\ now - timeout_start = 50
    /\ lastRecv.tag = "Some"

\* A frame whose identifier names motor `id`: by its source_id if that is in
\* [1,127], by its direct_id if the source_id is 0.
Names(frame, id) ==
    \/ SourceBits(frame) \in 1..127 /\ SourceBits(frame) = id
    \/ SourceBits(frame) = 0 /\ DirectBits(frame) = id

\* C22: every MotorInfo ping_motor returns has the requested motor_id; it is
\* online exactly if a frame accepted for motor_id was read in that call;
\* offline it has response_time_ms 0 and the default name and version;
\* online its response_time_ms is the time from the start of the call to the
\* read that gave the frame, which is at least the 10 ms settle delay.
C22_MotorInfoInvariants ==
    ping_res = "Ok" =>
        /\ pc \in {"ping_return", "done"}
        /\ info.motor_id = motor_id
        /\ info.is_online <=> matched # NoFrame
        /\ matched # NoFrame =>
             /\ Names(matched, motor_id)
             /\ lastRecv.tag = "Some"
             /\ lastRecv.frame = matched
             /\ lastRecv.since_sent >= 10
        /\ ~info.is_online =>
             /\ info.response_time_ms = 0
             /\ info.name = <<85, 110, 107, 110, 111, 119, 110>>
             /\ info.hardware_version = <<85, 110, 107, 110, 111, 119, 110>>
        /\ info.is_online =>
             /\ info.response_time_ms >= 10
             /\ info.response_time_ms = now - start_time
             /\ info.response_time_ms >= lastRecv.since_sent

\* C22 witness: the reply was in the socket's queue when the settle delay
\* ended; the first read took it at once and response_time_ms is the 10 ms of
\* the delay.
C22_Witness ==
    /\ ping_res = "Ok"
    /\ pc = "ping_return"
    /\ info.is_online
    /\ arrivals = 1
    /\ lastRecv.since_poll = 0
    /\ lastRecv.since_sent = 10
    /\ info.response_time_ms = 10

\* C23: in a range scan a reply is correlated only with the ping in
\* progress.  Entry k of the result is online exactly if a frame naming ID k
\* was read during k's own ping; a frame naming another ID, such as a late
\* reply to an earlier ping that was still in the socket's queue, is read and
\* dropped: it does not mark the pinged ID online, and the entries already
\* pushed stay as they were.
C23_RepliesCorrelatedWithCurrentPing ==
    call \in {"scan_range", "scan_motors"} =>
        /\ Len(windows) = Len(motors)
        /\ Len(motors) <= Len(ScanIds)
        /\ \A i \in 1..Len(motors) :
             /\ motors[i].motor_id = ScanIds[i]
             /\ motors[i].is_online <=> windows[i] # NoFrame
             /\ windows[i] # NoFrame => Names(windows[i], ScanIds[i])
        /\ (lastRecv.tag = "Some" /\ ~Names(lastRecv.frame, motor_id)) =>
             /\ ~lastRecv.accepted
             /\ ~info.is_online
             /\ matched = NoFrame
        /\ info.is_online => Names(lastRecv.frame, motor_id)

\* C23 witness: the first ID of the scan was pushed offline; its reply came
\* too late, was still queued when the second ID was pinged, and was read at
\* once and dropped there.
C23_Witness ==
    /\ call \in {"scan_range", "scan_motors"}
    /\ Len(pinged) = 2
    /\ Len(motors) = 1
    /\ ~motors[1].is_online
    /\ pc = "ping_poll"
    /\ lastRecv.tag = "Some"
    /\ lastRecv.since_poll = 0
    /\ Names(lastRecv.frame, pinged[1])
    /\ ~lastRecv.accepted
    /\ ~info.is_online
    /\ rxq = <<>>

\* The motor has been enabled: the enable call main made first returned Ok.
MotorEnabled ==
    /\ program # "none"
    /\ Len(history) >= 1
    /\ history[1].op = EnableCall(program)
    /\ history[1].result = "Ok"

\* The last call main made was disable_motor(args.motor_id), and unless its
\* write failed it wrote the mode frame with mode byte 0 to the motor's ID.
DisabledLast ==
    LET last == history[Len(history)]
    IN  /\ last.op = "disable_motor"
        /\ last.id = motor_id
        /\ last.result = "Ok" =>
             /\ Len(last.frames) = 1
             /\ last.frames[1].id = motor_id
             /\ last.frames[1].data = <<1, 0, 0, 80, 80, 80, 80, 80>>

\* C21: cancellation is cooperative: once the stop flag is set, the loop
\* starts no control operation beyond those it had started (the one in
\* flight included), and a control program that had enabled the motor ends
\* with disable_motor as its last call, its mode frame the last frame sent.
C21_StopStartsNothingAndDisables ==
    /\ stopped_after >= 0 => started = stopped_after
    /\ (pc = "exit" /\ stopped_after >= 0 /\ MotorEnabled) => DisabledLast

\* The control mode was entered and has been left in one of three ways: it
\* returned Ok (the quit command, the stop flag, or the end of the sweep), or
\* it returned the error of a command send, which leaves the operation that
\* was started last short of frames.
ModeLeft ==
    /\ Len(history) >= 2
    /\ history[2].op \in ModeCalls
    /\ \/ history[2].result = "Ok"
       \/ /\ history[2].result = "Err"
          /\ Len(history[2].frames) <
               started * (IF program = "angle_stream_control"
                          THEN SEND_COUNT ELSE 1)

\* C24: a control program that has enabled the motor does not end with the
\* motor left enabled: whichever way the mode is left (quit, stop flag, an
\* error returned by a command send), disable_motor is the last call main
\* makes before it returns.
C24_DisabledOnEveryExit ==
    (pc = "exit" /\ MotorEnabled /\ ModeLeft) => DisabledLast

====
